---- MODULE Spec2Model ----
(***************************************************************************)
(* FATORI-V fault-injection controller: the acknowledgement tracker, the   *)
(* time profiles (schedulers), the address_list area cursor and the single *)
(* RX consumer loop, as a state machine.                                   *)
(*                                                                         *)
(* Threads: the device/transport reader (fills the received-line queue),   *)
(* the controller's RX consumer (_rx_printer), the scheduler thread (a     *)
(* time profile's run()), and the owner of the pause/stop flags.           *)
(***************************************************************************)
EXTENDS Integers, Sequences, FiniteSets, TLC

\* ------------------------------------------------------------------ bounds
MaxLen == 3

MaxRx == 2

MaxQueue == 2

MaxSteps == 2

MaxBurst == 2

MaxSched == 2

MaxRepeat == 2

MaxAckLen == 2

MaxPause == 1

\* ------------------------------------------------------ received lines
\* A line is a sequence of characters.
None == "None"

HexDigits == {"0", "1", "A", "a"}

HexVal(c) == CASE c = "0" -> 0 [] c = "1" -> 1 [] c = "A" -> 10 [] c = "a" -> 10

IsWs(c) == c \in {" ", "\t"}

LineSC00 == <<"S", "C", " ", "0", "0">>

LineSC10 == <<"S", "C", " ", "1", "0">>

LineEchoN == <<"I", ">", " ", "N", " ", "A">>

LineNoWs == <<"S", "C", "0", "0">>

Lines == {LineSC00, LineSC10, LineEchoN, LineNoWs}

\* _RE_SC = ^SC\s+([0-9A-Fa-f]{2})$ : "SC", one or more blanks, two hex digits.
ReScMatch(line) ==
    /\ Len(line) >= 5
    /\ line[1] = "S"
    /\ line[2] = "C"
    /\ \A i \in 3..(Len(line) - 2) : IsWs(line[i])
    /\ line[Len(line) - 1] \in HexDigits
    /\ line[Len(line)] \in HexDigits

\* int(m.group(1), 16)
ReScValue(line) == 16 * HexVal(line[Len(line) - 1]) + HexVal(line[Len(line)])

\* ------------------------------------------------------ _AckTracker
AckInit == [pending |-> FALSE, event |-> FALSE]

\* mutant: start() arms the tracker without clearing the event
AckStartKeepsEvent(t) == [t EXCEPT !.pending = TRUE]

AckStart(t) == [pending |-> TRUE, event |-> FALSE]

\* return value of on_rx(line)
AckOnRxRet(t, line) ==
    /\ t.pending
    /\ ReScMatch(line)
    /\ ReScValue(line) = 0

\* mutant: the resolution sets the event but leaves the tracker pending
AckOnRxStaysPending(t, line) ==
    IF AckOnRxRet(t, line) THEN [pending |-> TRUE, event |-> TRUE] ELSE t

\* tracker state after on_rx(line)
AckOnRx(t, line) ==
    IF AckOnRxRet(t, line) THEN [pending |-> FALSE, event |-> TRUE] ELSE t

\* mutant: wait() clears the event before it blocks
AckWaitEnterClears(t) == [t EXCEPT !.event = FALSE]

\* wait() touches no tracker state when it is entered
AckWaitEnter(t) == t

\* Event.wait(timeout): returns the flag; may only give up when the timeout ran out
AckWaitCanReturn(t, timedOut) == t.event \/ timedOut

AckWaitRet(t) == t.event

\* ------------------------------------------------------ configuration
Profiles == {"uniform", "poisson", "ramp", "mmpp2", "microburst", "trace"}

\* uniform, poisson, ramp and mmpp2 run "for addr in addr_it:"
ForLoop(p) == p \in {"uniform", "poisson", "ramp", "mmpp2"}

\* the stored address list of the area profile: A1, A2, ...
AddrList(n) == [i \in 1..n |-> i]

\* an optional value: <<>> is Python's None, <<v>> holds v
Nil == <<>>

Some(v) == <<v>>

Val(o) == o[1]

OptNat(n) == {Nil} \cup {Some(k) : k \in 0..n}

VARIABLES
    cfg,             \* the time profile's configuration (fixed at construction)
    area,            \* address_list Profile: _addrs, _idx
    sch,             \* the scheduler thread: position and locals of run()
    ack_tracker,     \* the _AckTracker main() creates, fed by the RX consumer
    pause_evt,
    stop_evt,
    rxq,             \* the transport's queue of received lines
    rxBatch,         \* lines = tr.read_lines(...) held by the RX consumer
    tx,              \* commands written to the transport
    linkUp,          \* FALSE once the channel is broken: writes raise
    log,             \* the EventLogger's deferred entries
    env,             \* environment: lines the device may still emit, elapsed duration
    obs,             \* history of calls, read by the properties only
    ctl,             \* the controller: main thread, RX loop gate, watcher, console mode
    hist             \* history of the controller's steps, read by the properties only

vars == <<cfg, area, sch, ack_tracker, pause_evt, stop_evt, rxq, rxBatch, tx,
          linkUp, log, env, obs, ctl, hist>>

\* gating is on when ack is set, ack_timeout_s > 0 and a tracker was wired
Gated == cfg.ack

\* reason recorded by the shot cap
MaxReason(p) == IF p \in {"uniform", "poisson", "ramp", "microburst"}
                THEN "max_reached" ELSE "profile_complete"

\* Fields a profile does not have keep their constructor default.
\* ProfileShapes(n): per profile, the loop parameters tried with an n-address list.
ProfileShapes ==
    [profile : {"uniform", "poisson", "mmpp2"},
     steps : {Nil}, hold_end_rate : {TRUE},
     shots_per_burst : {1}, bursts : {Nil}, nSched : {1}, repeat : {1}]
    \cup
    [profile : {"ramp"},
     steps : {Nil} \cup {Some(k) : k \in 1..MaxSteps}, hold_end_rate : BOOLEAN,
     shots_per_burst : {1}, bursts : {Nil}, nSched : {1}, repeat : {1}]
    \cup
    [profile : {"microburst"},
     steps : {Nil}, hold_end_rate : {TRUE},
     shots_per_burst : 1..MaxBurst, bursts : {Nil} \cup {Some(k) : k \in 1..MaxBurst},
     nSched : {1}, repeat : {1}]
    \cup
    [profile : {"trace"},
     steps : {Nil}, hold_end_rate : {TRUE},
     shots_per_burst : {1}, bursts : {Nil},
     nSched : 1..MaxSched, repeat : 1..MaxRepeat]

\* a configuration: a shape plus the options every profile has
WithOptions(shape, ack, duration, max_shots, nAddr) ==
    [profile |-> shape.profile, steps |-> shape.steps,
     hold_end_rate |-> shape.hold_end_rate,
     shots_per_burst |-> shape.shots_per_burst, bursts |-> shape.bursts,
     nSched |-> shape.nSched, repeat |-> shape.repeat,
     ack |-> ack, duration |-> duration, max_shots |-> max_shots, nAddr |-> nAddr]

\* what the environment may still do: lines the device may emit, flag changes,
\* a channel break
Budget(rx, pauses, stops, breaks) ==
    [rxLeft |-> rx, pauseLeft |-> pauses, stopLeft |-> stops, breakLeft |-> breaks,
     durElapsed |-> FALSE]

\* Scenario families: [cfg, env] pairs the campaigns start from.
\* gated campaigns with device traffic
AckScenarios ==
    {[cfg |-> WithOptions(sh, TRUE, FALSE, Nil, n), env |-> Budget(MaxRx, 0, 0, 0)] :
        sh \in {x \in ProfileShapes : x.steps = Nil /\ x.bursts = Nil /\ x.repeat = 1},
        n \in 1..MaxAckLen}

\* ungated campaigns that run to their own end, or until the channel breaks
RunScenarios ==
    {[cfg |-> WithOptions(sh, FALSE, d, m, n), env |-> Budget(0, 0, 0, 1)] :
        sh \in ProfileShapes, d \in BOOLEAN, m \in OptNat(MaxLen), n \in 0..MaxLen}

\* campaigns that are paused, resumed and stopped
CancelScenarios ==
    {[cfg |-> WithOptions(sh, a, d, Nil, n), env |-> Budget(0, MaxPause, 1, 0)] :
        sh \in {x \in ProfileShapes : x.steps = Nil /\ x.bursts = Nil},
        a \in BOOLEAN, d \in BOOLEAN, n \in 1..MaxAckLen}

Scenarios == AckScenarios \cup RunScenarios \cup CancelScenarios

\* gated campaigns that are stopped, or lose the channel, around an acknowledgement
StopAckScenarios ==
    {[cfg |-> WithOptions(sh, TRUE, FALSE, Nil, 1), env |-> Budget(1, 0, 1, 1)] :
        sh \in {x \in ProfileShapes : x.steps = Nil /\ x.bursts = Nil /\ x.repeat = 1}}

\* the campaigns in which the flags are used
FlagScenarios == CancelScenarios \cup StopAckScenarios

SchInit(c) ==
    [pc |-> IF ForLoop(c.profile) THEN "next" ELSE "delay",
     addr |-> Nil,
     shots |-> 0,
     first_shot |-> TRUE,
     t0 |-> (c.profile = "uniform"),
     finished_reason |-> None,
     shots_in_this_burst |-> 0,
     bursts_emitted |-> 0,
     r |-> 0,
     entry |-> 0]

ObsInit ==
    [started |-> FALSE,    \* start() was called at least once
     hist |-> <<>>,        \* per "SC 00" line fed since the last start(): on_rx's
                           \* result, and whether an "SC 10" line was fed before it
     sc10 |-> FALSE,       \* an "SC 10" line was fed since the last start()
     enterRes |-> FALSE,   \* the tracker was resolved when wait() was entered
     waitRet |-> Nil,      \* the wait() after the last start(): its result, and
                           \* whether on_rx had resolved the tracker before it returned
     late |-> FALSE,       \* an "SC 00" resolved the tracker after a timed-out wait()
     armed |-> 0,          \* number of start() calls
     waits |-> 0,          \* number of wait() calls that returned
     stopTx |-> Nil,       \* Len(tx) when the stop flag was set
     pauseTx |-> Nil,      \* Len(tx) when the pause flag was last set
     held |-> FALSE,       \* the scheduler is in its pause wait and saw the flag set
     resume |-> Nil,       \* when the scheduler last left the pause wait on a cleared
                           \* flag: Len(tx), and whether it had work left to do
     everStop |-> FALSE,
     everPause |-> FALSE,
     stopHeld |-> FALSE,
     stopSeen |-> FALSE]   \* run() read the stop flag as set and left its loop

Resolved == \E i \in DOMAIN obs.hist : obs.hist[i].ret

\* ------------------------------------------------------ controller state
OnEnd == {"manual", "exit"}

\* main() after the transport is open and the RX thread started (lines 600-699)
CtlInit(on_end, attempts) ==
    [pc |-> "init_clear",       \* main thread
     ret |-> "none",            \* where the _do_status() in progress returns to
     ok |-> FALSE,              \* result of the last _do_status()
     tries |-> 0,               \* iterations done by the _preflight_sem() in progress
     rxpc |-> "check",          \* RX thread: at the loop test, or inside read_lines()
     rxfed |-> FALSE,           \* RX thread: on_rx() done for the line in hand
     wpc |-> "off",             \* watcher thread
     rx_enabled |-> TRUE,
     driven |-> TRUE,
     auto_exit_evt |-> FALSE,
     watcher_fired |-> FALSE,
     area |-> FALSE,            \* an Area Profile object exists
     time_profile |-> FALSE,    \* a Time Profile object exists
     tr_closed |-> FALSE,
     log_closed |-> FALSE,
     exit_code |-> Nil,
     sched_tracker |-> Nil,     \* the tracker given to the scheduler, when it is not
                                \* the one main() created and the RX loop feeds
     on_end |-> on_end,
     attempts |-> attempts]

\* the controller while a campaign armed at start-up runs in driven mode
CtlDriven(on_end, attempts) ==
    [CtlInit(on_end, attempts) EXCEPT
        !.pc = "read_driven", !.wpc = "poll", !.area = TRUE, !.time_profile = TRUE]

HistInit ==
    [arrived |-> <<>>,          \* lines queued by the transport, in arrival order
     fed |-> <<>>,              \* lines the RX consumer passed to on_rx()
     queries |-> 0,             \* status queries of the preflight in progress
     startFailed |-> FALSE,     \* the start-up status check yielded no counters
     startQueries |-> 0,        \* status queries issued by the start-up check
     armErr |-> "none",         \* which construction failed at start-up
     armings |-> 0,             \* arming attempts begun
     constructed |-> <<>>,      \* objects constructed, in order, by the last arming
     campaigns |-> 0,           \* schedulers started
     resumes |-> 0,             \* 'resume' commands whose preflight succeeded
     snap |-> Nil,              \* flags when the 'resume' in progress was entered
     policy |-> "none",         \* the policy the watcher applied
     endKind |-> "none",        \* the branch the watcher took
     exhausted |-> FALSE,       \* the end the watcher saw was the end of the addresses
     endSeen |-> 0,             \* which scheduler's end the watcher saw (0: none yet)
     armedAt |-> 0,             \* Len(fed) at the scheduler's last start()
     waited |-> Nil,            \* the wait() after that start(): its result, and
                                \* whether an "SC 00" line was fed before it returned
     refused |-> 0,             \* lines refused as "disabled in driven mode"
     manualAt |-> Nil,          \* "N" commands written when the user typed 'manual'
     userEnd |-> FALSE]         \* the user typed 'exit' or closed the input

\* the state once the campaign is armed and the scheduler thread started
InitFrom(scenarios) ==
    /\ \E sc \in scenarios : cfg = sc.cfg /\ env = sc.env
    /\ area = [addrs |-> AddrList(cfg.nAddr), idx |-> 0]
    /\ sch = SchInit(cfg)
    /\ ack_tracker = AckInit
    /\ pause_evt = FALSE
    /\ stop_evt = FALSE
    /\ rxq = <<>>
    /\ rxBatch = <<>>
    /\ tx = <<>>
    /\ linkUp = TRUE
    /\ log = <<>>
    /\ obs = ObsInit
    /\ ctl = CtlDriven("manual", 1)
    /\ hist = HistInit

Init == InitFrom(Scenarios)

FlagInit == InitFrom(FlagScenarios)

\* ------------------------------------------------------ control flow of run()
PcTx == IF Gated THEN "arm" ELSE "inject"

\* where "break" out of the shot loop leads
PcBreak(p) == IF ForLoop(p) THEN "exit"
              ELSE IF p = "microburst" THEN "burst_end" ELSE "after_inner"

PcAfterNext(p) == IF ForLoop(p) THEN "stop1"
                  ELSE IF p = "trace" THEN "deadline" ELSE PcTx

PcAfterStop2(p) == IF p = "microburst" THEN "max" ELSE "dur"

PcAfterMax(p) == IF ForLoop(p) THEN "delay" ELSE "next"

PcAfterDelay(p) == IF ForLoop(p) THEN PcTx
                   ELSE IF p = "microburst" THEN "outer" ELSE "rep"

\* mutant: the gated branch goes on without waiting
PcAfterInjectNoWait(gated) == "shot"

PcAfterInject(gated) == IF gated THEN "wait" ELSE "shot"

PcAfterShot(p) == IF p = "trace" THEN "entry" ELSE "cadence"

PcAfterCadence(p) == IF p = "microburst" THEN "inner" ELSE "next"

ExitNote == <<"INFO", "Exiting. Creating log file.">>

EndNote(reason) == <<"INFO", "Time profile finished.", reason>>

\* self.finished_reason = reason; self._log_profile_end(reason); return
Finish(reason) ==
    /\ sch' = [sch EXCEPT !.pc = "done", !.finished_reason = reason]
    /\ log' = Append(log, EndNote(reason))

Goto(pc) == sch' = [sch EXCEPT !.pc = pc]

\* ------------------------------------------------------ area profile cursor
AreaHasNext(a) == a.idx < Len(a.addrs)

\* next_address(): the value returned and the cursor afterwards; none stands
\* for Python's None
NextAddress(a, none) ==
    IF a.idx >= Len(a.addrs)
    THEN [ret |-> none, area |-> a]
    ELSE [ret |-> a.addrs[a.idx + 1], area |-> [a EXCEPT !.idx = a.idx + 1]]

\* where the addresses are numbers, None is 0
AreaNextAddress(a) == NextAddress(a, 0)

\* ------------------------------------------------------ scheduler thread
\* self.ack_tracker of the running profile
SchedTracker == IF ctl.sched_tracker = Nil THEN ack_tracker ELSE Val(ctl.sched_tracker)

\* a call on self.ack_tracker leaves it as t
SchedTrackerBecomes(t) ==
    IF ctl.sched_tracker = Nil
    THEN ack_tracker' = t /\ ctl' = ctl
    ELSE ack_tracker' = ack_tracker /\ ctl' = [ctl EXCEPT !.sched_tracker = Some(t)]

\* an "SC 00" line: the value on_rx() resolves on
IsSC00(line) == ReScMatch(line) /\ ReScValue(line) = 0

MaxReached == cfg.max_shots # Nil /\ sch.shots >= Val(cfg.max_shots)

\* at the pause wait: an address is in hand or still to be had, and the cap is not met
WorkLeft == (ForLoop(cfg.profile) \/ AreaHasNext(area)) /\ ~MaxReached

\* mutant: at the end of the address sequence the scheduler reports the reason itself
SchedNextAddrSelfReports ==
    /\ sch.pc = "next"
    /\ IF AreaHasNext(area)
       THEN /\ area' = AreaNextAddress(area).area
            /\ sch' = [sch EXCEPT !.pc = PcAfterNext(cfg.profile),
                                  !.addr = Some(AreaNextAddress(area).ret)]
       ELSE /\ area' = area
            /\ sch' = [sch EXCEPT !.pc = "exit", !.finished_reason = "area_exhausted"]
    /\ UNCHANGED <<ctl, hist, cfg, ack_tracker, pause_evt, stop_evt, rxq, rxBatch, tx, linkUp,
                   log, env, obs>>

\* "for addr in addr_it" / next(addr_it) over area.iter_addresses()
SchedNextAddr ==
    /\ sch.pc = "next"
    /\ IF AreaHasNext(area)
       THEN /\ area' = AreaNextAddress(area).area
            /\ sch' = [sch EXCEPT !.pc = PcAfterNext(cfg.profile),
                                  !.addr = Some(AreaNextAddress(area).ret)]
       ELSE /\ area' = area
            /\ Goto("exit")
    /\ UNCHANGED <<ctl, hist, cfg, ack_tracker, pause_evt, stop_evt, rxq, rxBatch, tx, linkUp,
                   log, env, obs>>

SchedStopCheck1 ==
    /\ sch.pc = "stop1"
    /\ Goto(IF stop_evt THEN PcBreak(cfg.profile) ELSE "pause")
    /\ obs' = [obs EXCEPT !.stopSeen = obs.stopSeen \/ stop_evt]
    /\ UNCHANGED <<ctl, hist, cfg, area, ack_tracker, pause_evt, stop_evt, rxq, rxBatch, tx,
                   linkUp, log, env>>

\* mutant: the loop does not look at the pause flag
SchedPauseReadIgnoresPause ==
    /\ sch.pc = "pause"
    /\ Goto("stop2")
    /\ obs' = obs
    /\ UNCHANGED <<ctl, hist, cfg, area, ack_tracker, pause_evt, stop_evt, rxq, rxBatch, tx,
                   linkUp, log, env>>

\* while self.pause_evt.is_set() and not self.stop_evt.is_set(): time.sleep(0.05)
SchedPauseRead ==
    /\ sch.pc = "pause"
    /\ Goto(IF pause_evt THEN "pause_stop" ELSE "stop2")
    /\ obs' = [obs EXCEPT
           !.held = pause_evt,
           !.resume = IF obs.held /\ ~pause_evt
                      THEN Some([tx |-> Len(tx), work |-> WorkLeft])
                      ELSE obs.resume]
    /\ UNCHANGED <<ctl, hist, cfg, area, ack_tracker, pause_evt, stop_evt, rxq, rxBatch, tx,
                   linkUp, log, env>>

\* mutant: the pause wait does not look at the stop flag
SchedPauseStopReadIgnoresStop ==
    /\ sch.pc = "pause_stop"
    /\ Goto("pause")
    /\ obs' = [obs EXCEPT !.held = TRUE]
    /\ UNCHANGED <<ctl, hist, cfg, area, ack_tracker, pause_evt, stop_evt, rxq, rxBatch, tx,
                   linkUp, log, env>>

SchedPauseStopRead ==
    /\ sch.pc = "pause_stop"
    /\ Goto(IF stop_evt THEN "stop2" ELSE "pause")
    /\ obs' = [obs EXCEPT !.held = ~stop_evt]
    /\ UNCHANGED <<ctl, hist, cfg, area, ack_tracker, pause_evt, stop_evt, rxq, rxBatch, tx,
                   linkUp, log, env>>

SchedStopCheck2 ==
    /\ sch.pc = "stop2"
    /\ Goto(IF stop_evt THEN PcBreak(cfg.profile) ELSE PcAfterStop2(cfg.profile))
    /\ obs' = [obs EXCEPT !.stopSeen = obs.stopSeen \/ stop_evt]
    /\ UNCHANGED <<ctl, hist, cfg, area, ack_tracker, pause_evt, stop_evt, rxq, rxBatch, tx,
                   linkUp, log, env>>

DurationOver == cfg.duration /\ sch.t0 /\ env.durElapsed

SchedDurationCheck ==
    /\ sch.pc = "dur"
    /\ IF DurationOver THEN Finish("duration_elapsed")
       ELSE Goto("max") /\ log' = log
    /\ UNCHANGED <<ctl, hist, cfg, area, ack_tracker, pause_evt, stop_evt, rxq, rxBatch, tx,
                   linkUp, env, obs>>

SchedMaxCheck ==
    /\ sch.pc = "max"
    /\ IF MaxReached THEN Finish(MaxReason(cfg.profile))
       ELSE Goto(PcAfterMax(cfg.profile)) /\ log' = log
    /\ UNCHANGED <<ctl, hist, cfg, area, ack_tracker, pause_evt, stop_evt, rxq, rxBatch, tx,
                   linkUp, env, obs>>

\* _maybe_first_shot_delay(), and "if t0 is None: t0 = now" where it follows
SchedFirstShotDelay ==
    /\ sch.pc = "delay"
    /\ sch' = [sch EXCEPT !.pc = PcAfterDelay(cfg.profile),
                          !.first_shot = FALSE,
                          !.t0 = IF cfg.profile = "trace" THEN sch.t0 ELSE TRUE]
    /\ UNCHANGED <<ctl, hist, cfg, area, ack_tracker, pause_evt, stop_evt, rxq, rxBatch, tx,
                   linkUp, log, env, obs>>

\* self.ack_tracker.start()
SchedAckStart ==
    /\ sch.pc = "arm"
    /\ SchedTrackerBecomes(AckStart(SchedTracker))
    /\ Goto("inject")
    /\ obs' = [obs EXCEPT !.started = TRUE, !.hist = <<>>, !.sc10 = FALSE,
                          !.enterRes = FALSE, !.waitRet = Nil,
                          !.armed = obs.armed + 1]
    /\ hist' = [hist EXCEPT !.armedAt = Len(hist.fed), !.waited = Nil]
    /\ UNCHANGED <<cfg, area, pause_evt, stop_evt, rxq, rxBatch, tx, linkUp, log, env>>

\* the number of injection commands among the commands written
Injections(out) == Cardinality({i \in DOMAIN out : out[i][1] = "N"})

\* proto.inject_lfa(addr): writes "N <addr>", waits for no reply
ProtoInjectLfa(out, addr) == Append(out, <<"N", addr>>)

\* mutant: the injection blocks on the reply and takes the queued lines itself,
\* as the console's inject_once() does
SchedInjectReadsReply ==
    /\ sch.pc = "inject"
    /\ log' = Append(log, <<"TX", <<"N", Val(sch.addr)>>>>)
    /\ IF linkUp
       THEN /\ tx' = ProtoInjectLfa(tx, Val(sch.addr))
            /\ rxq' = <<>>
            /\ Goto(PcAfterInject(Gated))
       ELSE /\ tx' = tx
            /\ rxq' = rxq
            /\ Goto("exit")
    /\ UNCHANGED <<ctl, hist, cfg, area, ack_tracker, pause_evt, stop_evt, rxBatch, linkUp,
                   env, obs>>

\* self._inject(addr, use_ack=False)
SchedInject ==
    /\ sch.pc = "inject"
    /\ log' = Append(log, <<"TX", <<"N", Val(sch.addr)>>>>)
    /\ IF linkUp
       THEN /\ tx' = ProtoInjectLfa(tx, Val(sch.addr))
            /\ Goto(PcAfterInject(Gated))
       ELSE /\ tx' = tx
            /\ Goto("exit")
    /\ UNCHANGED <<ctl, hist, cfg, area, ack_tracker, pause_evt, stop_evt, rxq, rxBatch, linkUp,
                   env, obs>>

\* self.ack_tracker.wait(self.ack_timeout_s) is entered ...
SchedAckWaitEnter ==
    /\ sch.pc = "wait"
    /\ SchedTrackerBecomes(AckWaitEnter(SchedTracker))
    /\ Goto("waiting")
    /\ obs' = [obs EXCEPT !.enterRes = Resolved]
    /\ UNCHANGED <<hist, cfg, area, pause_evt, stop_evt, rxq, rxBatch, tx, linkUp, log, env>>

\* ... and returns, on the event or when the timeout ran out
SchedAckWaitReturn ==
    /\ sch.pc = "waiting"
    /\ \E timedOut \in BOOLEAN : AckWaitCanReturn(SchedTracker, timedOut)
    /\ obs' = [obs EXCEPT
           !.waitRet = Some([ret |-> AckWaitRet(SchedTracker), resolved |-> Resolved]),
           !.waits = obs.waits + 1]
    /\ hist' = [hist EXCEPT !.waited =
           Some([ret |-> AckWaitRet(SchedTracker),
                 sc00 |-> \E i \in (hist.armedAt + 1)..Len(hist.fed) :
                             IsSC00(hist.fed[i])])]
    /\ Goto("shot")
    /\ UNCHANGED <<ctl, cfg, area, ack_tracker, pause_evt, stop_evt, rxq, rxBatch, tx,
                   linkUp, log, env>>

\* ramp: step-based, not holding: the profile completes after `steps` shots
RampComplete(shots) ==
    /\ cfg.profile = "ramp"
    /\ ~cfg.duration
    /\ cfg.steps # Nil
    /\ ~cfg.hold_end_rate
    /\ shots >= Val(cfg.steps)

\* shots += 1 and the per-profile counters that go with it
SchedAfterShot ==
    /\ sch.pc = "shot"
    /\ IF RampComplete(sch.shots + 1)
       THEN /\ sch' = [sch EXCEPT !.pc = "done", !.shots = sch.shots + 1,
                                  !.finished_reason = "profile_complete"]
            /\ log' = Append(log, EndNote("profile_complete"))
       ELSE /\ sch' = [sch EXCEPT
                  !.pc = PcAfterShot(cfg.profile),
                  !.shots = sch.shots + 1,
                  !.shots_in_this_burst =
                      IF cfg.profile = "microburst" THEN sch.shots_in_this_burst + 1
                      ELSE sch.shots_in_this_burst,
                  !.entry = IF cfg.profile = "trace" THEN sch.entry + 1 ELSE sch.entry]
            /\ log' = log
    /\ UNCHANGED <<ctl, hist, cfg, area, ack_tracker, pause_evt, stop_evt, rxq, rxBatch, tx,
                   linkUp, env, obs>>

\* self._sleep_until(next_deadline)
SchedCadenceWait ==
    /\ sch.pc = "cadence"
    /\ Goto(PcAfterCadence(cfg.profile))
    /\ UNCHANGED <<ctl, hist, cfg, area, ack_tracker, pause_evt, stop_evt, rxq, rxBatch, tx,
                   linkUp, log, env, obs>>

\* the exit note, on the way out of run() (also from the except handler)
SchedExitNote ==
    /\ sch.pc = "exit"
    /\ log' = Append(log, ExitNote)
    /\ Goto("done")
    /\ UNCHANGED <<ctl, hist, cfg, area, ack_tracker, pause_evt, stop_evt, rxq, rxBatch, tx,
                   linkUp, env, obs>>

\* ------------------------------------------------------ microburst only
\* top of "while True": stop, duration guard, bursts guard, burst start
SchedBurstOuter ==
    /\ sch.pc = "outer"
    /\ IF stop_evt THEN Goto("exit") /\ log' = log
       ELSE IF DurationOver THEN Finish("duration_elapsed")
       ELSE IF cfg.bursts # Nil /\ sch.bursts_emitted >= Val(cfg.bursts)
            THEN Finish("profile_complete")
       ELSE /\ sch' = [sch EXCEPT !.pc = "inner", !.shots_in_this_burst = 0]
            /\ log' = log
    /\ obs' = [obs EXCEPT !.stopSeen = obs.stopSeen \/ stop_evt]
    /\ UNCHANGED <<ctl, hist, cfg, area, ack_tracker, pause_evt, stop_evt, rxq, rxBatch, tx,
                   linkUp, env>>

\* while shots_in_this_burst < self.shots_per_burst
SchedBurstInner ==
    /\ sch.pc = "inner"
    /\ Goto(IF sch.shots_in_this_burst < cfg.shots_per_burst THEN "stop1"
            ELSE "burst_end")
    /\ UNCHANGED <<ctl, hist, cfg, area, ack_tracker, pause_evt, stop_evt, rxq, rxBatch, tx,
                   linkUp, log, env, obs>>

\* bursts_emitted += 1, then the inter-burst spacing
SchedBurstEnd ==
    /\ sch.pc = "burst_end"
    /\ sch' = [sch EXCEPT !.pc = "outer", !.bursts_emitted = sch.bursts_emitted + 1]
    /\ UNCHANGED <<ctl, hist, cfg, area, ack_tracker, pause_evt, stop_evt, rxq, rxBatch, tx,
                   linkUp, log, env, obs>>

\* ------------------------------------------------------ trace only
\* for r in range(self.repeat): the reference time is taken once
SchedTraceRepeat ==
    /\ sch.pc = "rep"
    /\ IF sch.r < cfg.repeat
       THEN sch' = [sch EXCEPT !.pc = "entry", !.t0 = TRUE, !.entry = 0]
       ELSE Goto("finish")
    /\ UNCHANGED <<ctl, hist, cfg, area, ack_tracker, pause_evt, stop_evt, rxq, rxBatch, tx,
                   linkUp, log, env, obs>>

\* for val in self._schedule
SchedTraceEntry ==
    /\ sch.pc = "entry"
    /\ Goto(IF sch.entry < cfg.nSched THEN "stop1" ELSE "after_inner")
    /\ UNCHANGED <<ctl, hist, cfg, area, ack_tracker, pause_evt, stop_evt, rxq, rxBatch, tx,
                   linkUp, log, env, obs>>

\* wait to the entry's deadline, before the shot
SchedTraceDeadline ==
    /\ sch.pc = "deadline"
    /\ Goto(PcTx)
    /\ UNCHANGED <<ctl, hist, cfg, area, ack_tracker, pause_evt, stop_evt, rxq, rxBatch, tx,
                   linkUp, log, env, obs>>

\* after the inner loop: "if self.stop_evt.is_set(): break"
SchedTraceAfterInner ==
    /\ sch.pc = "after_inner"
    /\ IF stop_evt THEN Goto("finish")
       ELSE sch' = [sch EXCEPT !.pc = "rep", !.r = sch.r + 1]
    /\ obs' = [obs EXCEPT !.stopSeen = obs.stopSeen \/ stop_evt]
    /\ UNCHANGED <<ctl, hist, cfg, area, ack_tracker, pause_evt, stop_evt, rxq, rxBatch, tx,
                   linkUp, log, env>>

\* after the loops: finished_reason = "schedule_exhausted", end note, exit note
SchedTraceFinish ==
    /\ sch.pc = "finish"
    /\ sch' = [sch EXCEPT !.pc = "done", !.finished_reason = "schedule_exhausted"]
    /\ log' = log \o <<EndNote("schedule_exhausted"), ExitNote>>
    /\ UNCHANGED <<ctl, hist, cfg, area, ack_tracker, pause_evt, stop_evt, rxq, rxBatch, tx,
                   linkUp, env, obs>>

SchedStep ==
    \/ SchedNextAddr \/ SchedStopCheck1 \/ SchedPauseRead \/ SchedPauseStopRead
    \/ SchedStopCheck2 \/ SchedDurationCheck \/ SchedMaxCheck \/ SchedFirstShotDelay
    \/ SchedAckStart \/ SchedInject \/ SchedAckWaitEnter \/ SchedAckWaitReturn
    \/ SchedAfterShot \/ SchedCadenceWait \/ SchedExitNote
    \/ SchedBurstOuter \/ SchedBurstInner \/ SchedBurstEnd
    \/ SchedTraceRepeat \/ SchedTraceEntry \/ SchedTraceDeadline
    \/ SchedTraceAfterInner \/ SchedTraceFinish

\* ------------------------------------------------------ RX consumer (_rx_printer)
\* lines = tr_local.read_lines(timeout_s=poll_timeout): takes what is queued
RxReadLines ==
    /\ ~stop_evt
    /\ rxBatch = <<>>
    /\ rxq # <<>>
    /\ rxBatch' = rxq
    /\ rxq' = <<>>
    /\ UNCHANGED <<ctl, hist, cfg, area, sch, ack_tracker, pause_evt, stop_evt, tx, linkUp, log,
                   env, obs>>

\* one turn of "for ln in lines": feed the tracker, then log the line
RxHandleLine ==
    /\ rxBatch # <<>>
    /\ LET ln == Head(rxBatch) IN
        /\ ack_tracker' = AckOnRx(ack_tracker, ln)
        /\ log' = Append(log, <<"RX", ln>>)
        /\ obs' = [obs EXCEPT
               !.hist = IF ln = LineSC00
                        THEN Append(obs.hist, [ret |-> AckOnRxRet(ack_tracker, ln),
                                               sc10 |-> obs.sc10])
                        ELSE obs.hist,
               !.sc10 = obs.sc10 \/ ln = LineSC10,
               !.late = \/ obs.late
                        \/ /\ AckOnRxRet(ack_tracker, ln)
                           /\ obs.waitRet # Nil
                           /\ ~Val(obs.waitRet).ret]
    /\ rxBatch' = Tail(rxBatch)
    /\ UNCHANGED <<ctl, hist, cfg, area, sch, pause_evt, stop_evt, rxq, tx, linkUp, env>>

\* ------------------------------------------------------ environment
\* the transport's reader thread queues a line the device sent
DeviceEmit ==
    /\ env.rxLeft > 0
    /\ Len(rxq) < MaxQueue
    /\ \E ln \in Lines :
          /\ rxq' = Append(rxq, ln)
          /\ hist' = [hist EXCEPT !.arrived = Append(hist.arrived, ln)]
    /\ env' = [env EXCEPT !.rxLeft = env.rxLeft - 1]
    /\ UNCHANGED <<ctl, cfg, area, sch, ack_tracker, pause_evt, stop_evt, rxBatch, tx,
                   linkUp, log, obs>>

\* wall-clock time passes duration_s, counted from t0
EnvDurationElapse ==
    /\ cfg.duration
    /\ sch.t0
    /\ ~env.durElapsed
    /\ env' = [env EXCEPT !.durElapsed = TRUE]
    /\ UNCHANGED <<ctl, hist, cfg, area, sch, ack_tracker, pause_evt, stop_evt, rxq, rxBatch, tx,
                   linkUp, log, obs>>

\* the channel breaks: later writes raise
EnvBreakLink ==
    /\ env.breakLeft > 0
    /\ linkUp
    /\ linkUp' = FALSE
    /\ env' = [env EXCEPT !.breakLeft = env.breakLeft - 1]
    /\ UNCHANGED <<ctl, hist, cfg, area, sch, ack_tracker, pause_evt, stop_evt, rxq, rxBatch, tx,
                   log, obs>>

\* the owner of the flags: pause_evt.set(), pause_evt.clear(), stop_evt.set()
\* the scheduler sits in its pause loop, held by the flag
InPauseWait == sch.pc \in {"pause", "pause_stop"} /\ obs.held

SetPause ==
    /\ env.pauseLeft > 0
    /\ ~pause_evt
    /\ pause_evt' = TRUE
    /\ env' = [env EXCEPT !.pauseLeft = env.pauseLeft - 1]
    /\ obs' = [obs EXCEPT !.pauseTx = Some(Len(tx)), !.everPause = TRUE]
    /\ UNCHANGED <<ctl, hist, cfg, area, sch, ack_tracker, stop_evt, rxq, rxBatch, tx, linkUp,
                   log>>

ClearPause ==
    /\ pause_evt
    /\ pause_evt' = FALSE
    /\ UNCHANGED <<ctl, hist, cfg, area, sch, ack_tracker, stop_evt, rxq, rxBatch, tx, linkUp,
                   log, env, obs>>

SetStop ==
    /\ env.stopLeft > 0
    /\ ~stop_evt
    /\ stop_evt' = TRUE
    /\ env' = [env EXCEPT !.stopLeft = env.stopLeft - 1]
    /\ obs' = [obs EXCEPT !.stopTx = Some(Len(tx)), !.everStop = TRUE,
                          !.stopHeld = InPauseWait]
    /\ UNCHANGED <<ctl, hist, cfg, area, sch, ack_tracker, pause_evt, rxq, rxBatch, tx, linkUp,
                   log>>

Next ==
    \/ SchedNextAddr \/ SchedStopCheck1 \/ SchedPauseRead \/ SchedPauseStopRead
    \/ SchedStopCheck2 \/ SchedDurationCheck \/ SchedMaxCheck \/ SchedFirstShotDelay
    \/ SchedAckStart \/ SchedInject \/ SchedAckWaitEnter \/ SchedAckWaitReturn
    \/ SchedAfterShot \/ SchedCadenceWait \/ SchedExitNote
    \/ SchedBurstOuter \/ SchedBurstInner \/ SchedBurstEnd
    \/ SchedTraceRepeat \/ SchedTraceEntry \/ SchedTraceDeadline
    \/ SchedTraceAfterInner \/ SchedTraceFinish
    \/ RxReadLines \/ RxHandleLine
    \/ DeviceEmit \/ EnvDurationElapse \/ EnvBreakLink
    \/ SetPause \/ ClearPause \/ SetStop

Spec == Init /\ [][Next]_vars

\* The scheduler is a running thread: its sleeps end, its wait() is bounded by
\* the timeout, and it is given processor time.
FairSpec == FlagInit /\ [][Next]_vars /\ WF_vars(SchedStep)

\* ====================================================== the controller
\* main() of fi/fault_injection.py: start-up check, arming, console loop,
\* 'resume', the end-of-campaign watcher, and the RX loop at statement level.

MaxCtlLen == 1

MaxAttempts == 2

MaxCmds == 1

MaxSilent == 2

MaxWatch == 1

\* commands typed in a session that re-arms a finished campaign
MaxReArmCmds == 2

\* lines the device sends in such a session
MaxReArmRx == 1

\* cs.SEND_STATUS_ON_START
SEND_STATUS_ON_START == TRUE

UniformShape == CHOOSE x \in ProfileShapes : x.profile = "uniform"

\* what the environment may still do in a console session: commands typed,
\* constructions that fail, status queries left unanswered, watch rounds
CtlBudget(cmds, fails, silent, rounds, rx) ==
    [rxLeft |-> rx, pauseLeft |-> 0, stopLeft |-> 0, breakLeft |-> 0,
     durElapsed |-> FALSE,
     cmdLeft |-> cmds, failLeft |-> fails, silentLeft |-> silent, watchLeft |-> rounds]

NoArea == [addrs |-> <<>>, idx |-> 0]

\* the state at line 784: transport open, RX thread running, nothing armed
CtlStartFrom(lens, budgets, e) ==
    /\ \E n \in lens, oe \in OnEnd, at \in budgets :
          /\ cfg = WithOptions(UniformShape, FALSE, FALSE, Nil, n)
          /\ ctl = CtlInit(oe, at)
    /\ env = e
    /\ area = NoArea
    /\ sch = [SchInit(cfg) EXCEPT !.pc = "created"]
    /\ ack_tracker = AckInit
    /\ pause_evt = FALSE
    /\ stop_evt = FALSE
    /\ rxq = <<>>
    /\ rxBatch = <<>>
    /\ tx = <<>>
    /\ linkUp = TRUE
    /\ log = <<>>
    /\ obs = ObsInit
    /\ hist = HistInit

CtlStart ==
    CtlStartFrom(0..MaxCtlLen, 0..MaxAttempts,
                 CtlBudget(MaxCmds, 1, MaxSilent, MaxWatch, 0))

\* the sessions with the longest address list and the largest attempt budget,
\* where at most one status query goes unanswered
FairCtlStart ==
    CtlStartFrom({MaxCtlLen}, {MaxAttempts}, CtlBudget(MaxCmds, 1, 1, MaxWatch, 0))

\* max(1, attempts)
AttemptBudget(attempts) == IF attempts < 1 THEN 1 ELSE attempts

\* mutant: 'resume' re-arms whether or not a scheduler is alive
NoLiveProfileUnchecked == TRUE

\* time_profile is None or not time_profile.is_alive()
NoLiveProfile == ~ctl.time_profile \/ sch.pc \in {"created", "done"}

\* the main thread is inside read_until_prompt() of a synchronized exchange
InExchange == ctl.pc \in {"init_mode_read", "status_read"}

\* mutant: the error handler leaves the console and the exit signal alone
CtlAfterErrorNoPolicy(c) == c

\* _switch_to_end_due_to_error(): what it does to the controller's flags
CtlAfterError(c) ==
    [c EXCEPT !.auto_exit_evt = c.auto_exit_evt \/ (c.on_end = "exit"),
              !.driven = c.driven /\ (c.on_end = "exit")]

\* ------------------------------------------------------ start-up block
\* rx_enabled.clear()
MainInitClear ==
    /\ ctl.pc = "init_clear"
    /\ ctl' = [ctl EXCEPT !.pc = "init_mode", !.rx_enabled = FALSE]
    /\ UNCHANGED <<hist, cfg, area, sch, ack_tracker, pause_evt, stop_evt, rxq, rxBatch,
                   tx, linkUp, log, env, obs>>

\* log.log_tx("I"); ensure_idle(): proto.goto_idle() ...
MainInitMode ==
    /\ ctl.pc = "init_mode"
    /\ log' = Append(log, <<"TX", <<"I">>>>)
    /\ tx' = Append(tx, <<"I">>)
    /\ ctl' = [ctl EXCEPT !.pc = "init_mode_read"]
    /\ UNCHANGED <<hist, cfg, area, sch, ack_tracker, pause_evt, stop_evt, rxq, rxBatch,
                   linkUp, env, obs>>

\* ... tr.read_until_prompt() returns; then the status on start, if configured
MainInitModeRead ==
    /\ ctl.pc = "init_mode_read"
    /\ ctl' = IF SEND_STATUS_ON_START
              THEN [ctl EXCEPT !.pc = "status_send", !.ret = "init_verify"]
              ELSE [ctl EXCEPT !.pc = "init_verify", !.ok = TRUE]
    /\ hist' = [hist EXCEPT !.queries = 0]
    /\ UNCHANGED <<cfg, area, sch, ack_tracker, pause_evt, stop_evt, rxq, rxBatch, tx,
                   linkUp, log, env, obs>>

\* _do_status(): log.log_tx("S"); proto.status() sends S ...
MainStatusSend ==
    /\ ctl.pc = "status_send"
    /\ log' = Append(log, <<"TX", <<"S">>>>)
    /\ tx' = Append(tx, <<"S">>)
    /\ ctl' = [ctl EXCEPT !.pc = "status_read"]
    /\ hist' = [hist EXCEPT !.queries = hist.queries + 1]
    /\ UNCHANGED <<cfg, area, sch, ack_tracker, pause_evt, stop_evt, rxq, rxBatch,
                   linkUp, env, obs>>

\* ... and reads until the prompt; counters were seen, or none
MainStatusRead ==
    /\ ctl.pc = "status_read"
    /\ \E seen \in BOOLEAN :
          /\ seen \/ env.silentLeft > 0
          /\ env' = IF seen THEN env
                    ELSE [env EXCEPT !.silentLeft = env.silentLeft - 1]
          /\ log' = IF seen THEN Append(log, <<"RX", <<"counters">>>>) ELSE log
          /\ ctl' = [ctl EXCEPT !.pc = ctl.ret, !.ok = seen]
    /\ UNCHANGED <<hist, cfg, area, sch, ack_tracker, pause_evt, stop_evt, rxq, rxBatch,
                   tx, linkUp, obs>>

\* mutant: the start-up block goes on to arm although nothing was confirmed
MainInitVerifyArmsAnyway ==
    /\ ctl.pc = "init_verify"
    /\ ctl' = [ctl EXCEPT !.pc = "arm_area", !.rx_enabled = TRUE]
    /\ hist' = [hist EXCEPT !.startQueries = hist.queries, !.startFailed = ~ctl.ok]
    /\ stop_evt' = stop_evt
    /\ log' = log
    /\ UNCHANGED <<cfg, area, sch, ack_tracker, pause_evt, rxq, rxBatch, tx, linkUp,
                   env, obs>>

\* "if s_verified: ... else: ... return 2", and the finally that re-enables RX
MainInitVerify ==
    /\ ctl.pc = "init_verify"
    /\ IF ctl.ok
       THEN /\ ctl' = [ctl EXCEPT !.pc = "arm_area", !.rx_enabled = TRUE]
            /\ hist' = [hist EXCEPT !.startQueries = hist.queries]
            /\ stop_evt' = stop_evt
            /\ log' = log
       ELSE /\ log' = Append(log, <<"ERROR", "Preflight connectivity check failed">>)
            /\ stop_evt' = (stop_evt \/ ctl.on_end = "exit")
            /\ ctl' = [ctl EXCEPT
                   !.pc = "returned", !.rx_enabled = TRUE, !.exit_code = Some(2),
                   !.auto_exit_evt = (ctl.on_end = "exit"),
                   !.tr_closed = (ctl.on_end = "exit"),
                   !.log_closed = (ctl.on_end = "exit")]
            /\ hist' = [hist EXCEPT !.startQueries = hist.queries, !.startFailed = TRUE]
    /\ UNCHANGED <<cfg, area, sch, ack_tracker, pause_evt, rxq, rxBatch, tx, linkUp,
                   env, obs>>

\* ------------------------------------------------------ arming
\* area = _load_area(...), or the except branch
MainArmArea ==
    /\ ctl.pc = "arm_area"
    /\ \E fails \in BOOLEAN :
          /\ fails => env.failLeft > 0
          /\ IF fails
             THEN /\ env' = [env EXCEPT !.failLeft = env.failLeft - 1]
                  /\ area' = area
                  /\ pause_evt' = TRUE
                  /\ log' = Append(log, <<"ERROR", "Failed to load campaign">>)
                  /\ ctl' = [CtlAfterError(ctl) EXCEPT
                         !.pc = "watcher_start", !.area = FALSE, !.time_profile = FALSE]
                  /\ hist' = [hist EXCEPT !.armErr = "area",
                                          !.armings = hist.armings + 1,
                                          !.constructed = <<>>]
             ELSE /\ env' = env
                  /\ area' = [addrs |-> AddrList(cfg.nAddr), idx |-> 0]
                  /\ pause_evt' = pause_evt
                  /\ log' = log
                  /\ ctl' = [ctl EXCEPT !.pc = "arm_time", !.area = TRUE]
                  /\ hist' = [hist EXCEPT !.armings = hist.armings + 1,
                                          !.constructed = <<"area">>]
    /\ UNCHANGED <<cfg, sch, ack_tracker, stop_evt, rxq, rxBatch, tx, linkUp, obs>>

\* time_profile = _load_time(...); ...; time_profile.start(), or the except branch
MainArmTime ==
    /\ ctl.pc = "arm_time"
    /\ \E fails \in BOOLEAN :
          /\ fails => env.failLeft > 0
          /\ IF fails
             THEN /\ env' = [env EXCEPT !.failLeft = env.failLeft - 1]
                  /\ sch' = sch
                  /\ pause_evt' = TRUE
                  /\ log' = Append(log, <<"ERROR", "Failed to load campaign">>)
                  /\ ctl' = [CtlAfterError(ctl) EXCEPT
                         !.pc = "watcher_start", !.area = FALSE, !.time_profile = FALSE]
                  /\ hist' = [hist EXCEPT !.armErr = "time"]
             ELSE /\ env' = env
                  /\ sch' = SchInit(cfg)
                  /\ pause_evt' = pause_evt
                  /\ log' = log \o << <<"PROF AREA", "start">>, <<"PROF TIME", "start">> >>
                  /\ ctl' = [ctl EXCEPT !.pc = "watcher_start", !.time_profile = TRUE]
                  /\ hist' = [hist EXCEPT !.campaigns = hist.campaigns + 1,
                                          !.constructed = Append(hist.constructed, "time")]
    /\ UNCHANGED <<cfg, area, ack_tracker, stop_evt, rxq, rxBatch, tx, linkUp, obs>>

\* threading.Thread(target=_profile_watcher, daemon=True).start()
MainStartWatcher ==
    /\ ctl.pc = "watcher_start"
    /\ ctl' = [ctl EXCEPT !.pc = "loop", !.wpc = "poll"]
    /\ UNCHANGED <<hist, cfg, area, sch, ack_tracker, pause_evt, stop_evt, rxq, rxBatch,
                   tx, linkUp, log, env, obs>>

\* ------------------------------------------------------ console loop
\* "if auto_exit_evt.is_set(): break", then "if driven:" picks the prompt
MainLoopTop ==
    /\ ctl.pc = "loop"
    /\ ctl' = [ctl EXCEPT !.pc = IF ctl.auto_exit_evt THEN "finally"
                                 ELSE IF ctl.driven THEN "read_driven"
                                 ELSE "read_manual"]
    /\ UNCHANGED <<hist, cfg, area, sch, ack_tracker, pause_evt, stop_evt, rxq, rxBatch,
                   tx, linkUp, log, env, obs>>

AtPrompt == ctl.pc \in {"read_driven", "read_manual"}

\* the line is handled as raw manual input: typed at the manual prompt, or the
\* console was switched to manual while the user was typing
AsManual == ctl.pc = "read_manual" \/ ~ctl.driven

Typed == env' = [env EXCEPT !.cmdLeft = env.cmdLeft - 1]

\* _readline_with_poll() with --on-end=exit: returns None once auto-exit is set
MainAutoExitPoll ==
    /\ AtPrompt
    /\ ctl.on_end = "exit"
    /\ ctl.auto_exit_evt
    /\ ctl' = [ctl EXCEPT !.pc = "finally"]
    /\ UNCHANGED <<hist, cfg, area, sch, ack_tracker, pause_evt, stop_evt, rxq, rxBatch,
                   tx, linkUp, log, env, obs>>

\* 'exit' (stop_evt.set(); break, or return 0 at line 1000), or end of input
CmdExit ==
    /\ AtPrompt
    /\ env.cmdLeft > 0
    /\ Typed
    /\ \E eof \in BOOLEAN :
          stop_evt' = (stop_evt \/ (~eof /\ ~(ctl.pc = "read_driven" /\ ~ctl.driven)))
    /\ ctl' = [ctl EXCEPT !.pc = "finally"]
    /\ hist' = [hist EXCEPT !.userEnd = TRUE]
    /\ UNCHANGED <<cfg, area, sch, ack_tracker, pause_evt, rxq, rxBatch, tx, linkUp,
                   log, obs>>

\* 'status' in driven mode
CmdStatus ==
    /\ ctl.pc = "read_driven"
    /\ ctl.driven
    /\ env.cmdLeft > 0
    /\ Typed
    /\ ctl' = [ctl EXCEPT !.pc = "status_clear"]
    /\ UNCHANGED <<hist, cfg, area, sch, ack_tracker, pause_evt, stop_evt, rxq, rxBatch,
                   tx, linkUp, log, obs>>

\* rx_enabled.clear() before the query
MainStatusClear ==
    /\ ctl.pc = "status_clear"
    /\ ctl' = [ctl EXCEPT !.pc = "status_send", !.ret = "status_set",
                          !.rx_enabled = FALSE]
    /\ UNCHANGED <<hist, cfg, area, sch, ack_tracker, pause_evt, stop_evt, rxq, rxBatch,
                   tx, linkUp, log, env, obs>>

\* finally: rx_enabled.set(); continue
MainStatusSet ==
    /\ ctl.pc = "status_set"
    /\ ctl' = [ctl EXCEPT !.pc = "loop", !.rx_enabled = TRUE]
    /\ UNCHANGED <<hist, cfg, area, sch, ack_tracker, pause_evt, stop_evt, rxq, rxBatch,
                   tx, linkUp, log, env, obs>>

\* 'watch' in driven mode
CmdWatch ==
    /\ ctl.pc = "read_driven"
    /\ ctl.driven
    /\ env.cmdLeft > 0
    /\ Typed
    /\ ctl' = [ctl EXCEPT !.pc = "watch_top"]
    /\ UNCHANGED <<hist, cfg, area, sch, ack_tracker, pause_evt, stop_evt, rxq, rxBatch,
                   tx, linkUp, log, obs>>

\* head of the watch loop: leave on auto-exit, else rx_enabled.clear()
MainWatchTop ==
    /\ ctl.pc = "watch_top"
    /\ ctl' = IF ctl.auto_exit_evt
              THEN [ctl EXCEPT !.pc = "loop"]
              ELSE [ctl EXCEPT !.pc = "status_send", !.ret = "watch_set",
                               !.rx_enabled = FALSE]
    /\ UNCHANGED <<hist, cfg, area, sch, ack_tracker, pause_evt, stop_evt, rxq, rxBatch,
                   tx, linkUp, log, env, obs>>

\* finally: rx_enabled.set(), then time.sleep(DEFAULT_WATCH_INTERVAL_S)
MainWatchSet ==
    /\ ctl.pc = "watch_set"
    /\ ctl' = [ctl EXCEPT !.pc = "watch_sleep", !.rx_enabled = TRUE]
    /\ UNCHANGED <<hist, cfg, area, sch, ack_tracker, pause_evt, stop_evt, rxq, rxBatch,
                   tx, linkUp, log, env, obs>>

\* the sleep ends and the loop goes round
MainWatchSleep ==
    /\ ctl.pc = "watch_sleep"
    /\ env.watchLeft > 0 \/ ctl.auto_exit_evt
    /\ env' = IF ctl.auto_exit_evt THEN env
              ELSE [env EXCEPT !.watchLeft = env.watchLeft - 1]
    /\ ctl' = [ctl EXCEPT !.pc = "watch_top"]
    /\ UNCHANGED <<hist, cfg, area, sch, ack_tracker, pause_evt, stop_evt, rxq, rxBatch,
                   tx, linkUp, log, obs>>

\* Ctrl+C: except KeyboardInterrupt ... continue
WatchInterrupt ==
    /\ ctl.pc = "watch_sleep"
    /\ ctl' = [ctl EXCEPT !.pc = "loop"]
    /\ UNCHANGED <<hist, cfg, area, sch, ack_tracker, pause_evt, stop_evt, rxq, rxBatch,
                   tx, linkUp, log, env, obs>>

\* 'manual' in driven mode: driven = False
CmdManual ==
    /\ ctl.pc = "read_driven"
    /\ ctl.driven
    /\ env.cmdLeft > 0
    /\ Typed
    /\ ctl' = [ctl EXCEPT !.pc = "loop", !.driven = FALSE]
    /\ hist' = [hist EXCEPT !.manualAt = Some(Injections(tx))]
    /\ UNCHANGED <<cfg, area, sch, ack_tracker, pause_evt, stop_evt, rxq, rxBatch,
                   tx, linkUp, log, obs>>

\* mutant: the driven prompt passes a line it does not know on to the device
CmdRawWritesInDriven ==
    /\ AtPrompt
    /\ env.cmdLeft > 0
    /\ Typed
    /\ log' = Append(log, <<"TX", <<"raw">>>>)
    /\ tx' = Append(tx, <<"raw">>)
    /\ hist' = hist
    /\ ctl' = [ctl EXCEPT !.pc = "loop"]
    /\ UNCHANGED <<cfg, area, sch, ack_tracker, pause_evt, stop_evt, rxq, rxBatch,
                   linkUp, obs>>

\* any other line: written to the device as manual input, refused in driven mode
CmdRaw ==
    /\ AtPrompt
    /\ env.cmdLeft > 0
    /\ Typed
    /\ IF AsManual
       THEN /\ log' = Append(log, <<"TX", <<"raw">>>>)
            /\ tx' = Append(tx, <<"raw">>)
            /\ hist' = hist
       ELSE /\ log' = log
            /\ tx' = tx
            /\ hist' = [hist EXCEPT !.refused = hist.refused + 1]
    /\ ctl' = [ctl EXCEPT !.pc = "loop"]
    /\ UNCHANGED <<cfg, area, sch, ack_tracker, pause_evt, stop_evt, rxq, rxBatch,
                   linkUp, obs>>

\* ------------------------------------------------------ resume
\* 'resume' at the manual prompt: _preflight_sem() is entered
CmdResume ==
    /\ ctl.pc = "read_manual"
    /\ env.cmdLeft > 0
    /\ Typed
    /\ ctl' = [ctl EXCEPT !.pc = "pre_top", !.tries = 0, !.ok = FALSE]
    /\ hist' = [hist EXCEPT
           !.queries = 0,
           !.snap = Some([pause |-> pause_evt, driven |-> ctl.driven,
                          campaigns |-> hist.campaigns, armings |-> hist.armings])]
    /\ UNCHANGED <<cfg, area, sch, ack_tracker, pause_evt, stop_evt, rxq, rxBatch, tx,
                   linkUp, log, obs>>

\* mutant: a preflight that failed lets the resume go on
MainPreTopResumesAnyway ==
    /\ ctl.pc = "pre_top"
    /\ ctl' = IF ctl.tries < AttemptBudget(ctl.attempts)
              THEN [ctl EXCEPT !.pc = "status_send", !.ret = "pre_set",
                               !.rx_enabled = FALSE]
              ELSE [ctl EXCEPT !.pc = "resume_arm"]
    /\ UNCHANGED <<hist, cfg, area, sch, ack_tracker, pause_evt, stop_evt, rxq, rxBatch,
                   tx, linkUp, log, env, obs>>

\* "for _ in range(max(1, attempts)): rx_enabled.clear()"; when the range is
\* used up _preflight_sem() returns False and the 'resume' is given up
MainPreTop ==
    /\ ctl.pc = "pre_top"
    /\ ctl' = IF ctl.tries < AttemptBudget(ctl.attempts)
              THEN [ctl EXCEPT !.pc = "status_send", !.ret = "pre_set",
                               !.rx_enabled = FALSE]
              ELSE [ctl EXCEPT !.pc = "loop"]
    /\ UNCHANGED <<hist, cfg, area, sch, ack_tracker, pause_evt, stop_evt, rxq, rxBatch,
                   tx, linkUp, log, env, obs>>

\* finally: rx_enabled.set(); "if ok: break"; time.sleep(...)
MainPreSet ==
    /\ ctl.pc = "pre_set"
    /\ ctl' = IF ctl.ok
              THEN [ctl EXCEPT !.pc = "resume_arm", !.rx_enabled = TRUE]
              ELSE [ctl EXCEPT !.pc = "pre_top", !.rx_enabled = TRUE,
                               !.tries = ctl.tries + 1]
    /\ UNCHANGED <<hist, cfg, area, sch, ack_tracker, pause_evt, stop_evt, rxq, rxBatch,
                   tx, linkUp, log, env, obs>>

\* the PROF lines logged when a campaign starts
StartNotes == << <<"PROF AREA", "start">>, <<"PROF TIME", "start">> >>

\* lines 1103-1142: re-arm if no profile is alive, then driven = True;
\* a construction that raises leaves the console as it is
MainResumeArm ==
    /\ ctl.pc = "resume_arm"
    /\ IF NoLiveProfile
       THEN \E outcome \in {"armed", "area_failed", "time_failed"} :
              /\ outcome # "armed" => env.failLeft > 0
              /\ env' = IF outcome = "armed" THEN env
                        ELSE [env EXCEPT !.failLeft = env.failLeft - 1]
              /\ area' = IF outcome = "area_failed" THEN area
                         ELSE [addrs |-> AddrList(cfg.nAddr), idx |-> 0]
              /\ sch' = IF outcome = "armed" THEN SchInit(cfg) ELSE sch
              /\ log' = IF outcome = "armed" THEN log \o StartNotes ELSE log
              /\ ctl' = [ctl EXCEPT
                     !.pc = "loop",
                     !.area = ctl.area \/ outcome # "area_failed",
                     !.time_profile = ctl.time_profile \/ outcome = "armed",
                     !.driven = ctl.driven \/ outcome = "armed",
                     !.sched_tracker = IF outcome = "armed" THEN Some(AckInit)
                                       ELSE ctl.sched_tracker]
              /\ hist' = [hist EXCEPT
                     !.resumes = hist.resumes + 1,
                     !.manualAt = IF outcome = "armed" THEN Nil ELSE hist.manualAt,
                     !.armings = hist.armings + 1,
                     !.constructed = IF outcome = "area_failed" THEN <<>>
                                     ELSE IF outcome = "time_failed" THEN <<"area">>
                                     ELSE <<"area", "time">>,
                     !.campaigns = IF outcome = "armed" THEN hist.campaigns + 1
                                   ELSE hist.campaigns]
       ELSE /\ ctl' = [ctl EXCEPT !.pc = "loop", !.driven = TRUE]
            /\ hist' = [hist EXCEPT !.resumes = hist.resumes + 1, !.manualAt = Nil]
            /\ UNCHANGED <<area, sch, log, env>>
    /\ UNCHANGED <<cfg, ack_tracker, pause_evt, stop_evt, rxq, rxBatch, tx, linkUp, obs>>

\* finally: stop_evt.set(); tr.close(); log.close(); return 0
MainFinally ==
    /\ ctl.pc = "finally"
    /\ stop_evt' = TRUE
    /\ ctl' = [ctl EXCEPT !.pc = "returned", !.tr_closed = TRUE, !.log_closed = TRUE,
                          !.exit_code = Some(0)]
    /\ UNCHANGED <<hist, cfg, area, sch, ack_tracker, pause_evt, rxq, rxBatch, tx,
                   linkUp, log, env, obs>>

\* ------------------------------------------------------ watcher thread
\* "while not stop_evt.is_set()" ends the watcher
WatcherStop ==
    /\ ctl.wpc = "poll"
    /\ ctl.pc # "returned"
    /\ stop_evt
    /\ ctl' = [ctl EXCEPT !.wpc = "ended"]
    /\ UNCHANGED <<hist, cfg, area, sch, ack_tracker, pause_evt, stop_evt, rxq, rxBatch,
                   tx, linkUp, log, env, obs>>

\* the branch of the watcher that reports the end
EndKind(reason) == IF reason = "area_exhausted" THEN "area" ELSE "time"

\* the PROF line the watcher logs
EndLog(reason) ==
    IF reason = "area_exhausted" THEN <<"PROF AREA", "finished">>
    ELSE <<"PROF TIME", "finished", reason>>

SwitchedNote == <<"INFO", "Switched to manual mode because the profile finished.">>

\* mutant: the watcher pauses the console and raises the exit signal
WatcherFireBoth ==
    /\ ctl.wpc = "poll"
    /\ ctl.pc # "returned"
    /\ ~stop_evt
    /\ ctl.time_profile
    /\ sch.pc = "done"
    /\ log' = Append(log, EndLog(sch.finished_reason)) \o << SwitchedNote >>
    /\ pause_evt' = TRUE
    /\ ctl' = [ctl EXCEPT !.wpc = "ended", !.watcher_fired = TRUE,
                          !.auto_exit_evt = TRUE, !.driven = FALSE]
    /\ hist' = [hist EXCEPT !.policy = ctl.on_end,
                            !.endKind = EndKind(sch.finished_reason),
                            !.exhausted = /\ sch.finished_reason = None
                                          /\ area.idx = Len(area.addrs),
                            !.endSeen = hist.campaigns]
    /\ UNCHANGED <<cfg, area, sch, ack_tracker, stop_evt, rxq, rxBatch, tx, linkUp,
                   env, obs>>

\* the profile is no longer alive: report the end, apply the policy, break
WatcherFire ==
    /\ ctl.wpc = "poll"
    /\ ctl.pc # "returned"
    /\ ~stop_evt
    /\ ctl.time_profile
    /\ sch.pc = "done"
    /\ IF ctl.on_end = "exit"
       THEN /\ log' = Append(log, EndLog(sch.finished_reason))
            /\ pause_evt' = pause_evt
            /\ ctl' = [ctl EXCEPT !.wpc = "ended", !.watcher_fired = TRUE,
                                  !.auto_exit_evt = TRUE]
       ELSE /\ log' = Append(log, EndLog(sch.finished_reason)) \o << SwitchedNote >>
            /\ pause_evt' = TRUE
            /\ ctl' = [ctl EXCEPT !.wpc = "ended", !.watcher_fired = TRUE,
                                  !.driven = FALSE]
    /\ hist' = [hist EXCEPT !.policy = ctl.on_end,
                            !.endKind = EndKind(sch.finished_reason),
                            !.exhausted = /\ sch.finished_reason = None
                                          /\ area.idx = Len(area.addrs),
                            !.endSeen = hist.campaigns]
    /\ UNCHANGED <<cfg, area, sch, ack_tracker, stop_evt, rxq, rxBatch, tx, linkUp,
                   env, obs>>

\* ------------------------------------------------------ RX thread, by statement
\* "while not stop_flag.is_set(): if not enabled_evt.is_set(): sleep; continue"
RxLoopTest ==
    /\ ctl.rxpc = "check"
    /\ ctl.pc # "returned"
    /\ rxBatch = <<>>
    /\ stop_evt \/ ctl.rx_enabled
    /\ ctl' = [ctl EXCEPT !.rxpc = IF stop_evt THEN "ended" ELSE "read_lines"]
    /\ UNCHANGED <<hist, cfg, area, sch, ack_tracker, pause_evt, stop_evt, rxq, rxBatch,
                   tx, linkUp, log, env, obs>>

\* lines = tr_local.read_lines(timeout_s=poll_timeout) returns
RxReadLinesReturn ==
    /\ ctl.rxpc = "read_lines"
    /\ ctl.pc # "returned"
    /\ rxBatch' = rxq
    /\ rxq' = <<>>
    /\ ctl' = [ctl EXCEPT !.rxpc = "check"]
    /\ UNCHANGED <<hist, cfg, area, sch, ack_tracker, pause_evt, stop_evt, tx, linkUp,
                   log, env, obs>>

\* mutant: the line is logged before the tracker sees it
RxFeedTrackerLogsFirst ==
    /\ rxBatch # <<>>
    /\ ~ctl.rxfed
    /\ ack_tracker' = ack_tracker
    /\ log' = Append(log, <<"RX", Head(rxBatch)>>)
    /\ hist' = hist
    /\ ctl' = [ctl EXCEPT !.rxfed = TRUE]
    /\ UNCHANGED <<cfg, area, sch, pause_evt, stop_evt, rxq, rxBatch, tx, linkUp,
                   env, obs>>

\* sc00_from_pending = ack_tracker.on_rx(ln)
RxFeedTracker ==
    /\ rxBatch # <<>>
    /\ ~ctl.rxfed
    /\ ack_tracker' = AckOnRx(ack_tracker, Head(rxBatch))
    /\ log' = log
    /\ hist' = [hist EXCEPT !.fed = Append(hist.fed, Head(rxBatch))]
    /\ ctl' = [ctl EXCEPT !.rxfed = TRUE]
    /\ UNCHANGED <<cfg, area, sch, pause_evt, stop_evt, rxq, rxBatch, tx, linkUp,
                   env, obs>>

\* log_local.log_rx(ln); _rx_echo(ln); and on to the next line
RxLogLine ==
    /\ rxBatch # <<>>
    /\ ctl.rxfed
    /\ log' = Append(log, <<"RX", Head(rxBatch)>>)
    /\ rxBatch' = Tail(rxBatch)
    /\ ctl' = [ctl EXCEPT !.rxfed = FALSE]
    /\ UNCHANGED <<hist, cfg, area, sch, ack_tracker, pause_evt, stop_evt, rxq, tx,
                   linkUp, env, obs>>

\* ------------------------------------------------------ specifications
\* the uniform scheduler's steps (ack gating off)
UniformStep ==
    \/ SchedNextAddr \/ SchedStopCheck1 \/ SchedPauseRead \/ SchedPauseStopRead
    \/ SchedStopCheck2 \/ SchedDurationCheck \/ SchedMaxCheck \/ SchedFirstShotDelay
    \/ SchedInject \/ SchedAfterShot \/ SchedCadenceWait \/ SchedExitNote

\* steps of the main thread that do not wait for the user
MainStep ==
    \/ MainInitClear \/ MainInitMode \/ MainInitModeRead \/ MainStatusSend
    \/ MainStatusRead \/ MainInitVerify \/ MainArmArea \/ MainArmTime
    \/ MainStartWatcher \/ MainLoopTop \/ MainAutoExitPoll \/ MainStatusClear
    \/ MainStatusSet \/ MainWatchTop \/ MainWatchSet \/ MainWatchSleep
    \/ MainPreTop \/ MainPreSet \/ MainResumeArm \/ MainFinally

UserStep ==
    \/ CmdExit \/ CmdStatus \/ CmdWatch \/ WatchInterrupt \/ CmdManual \/ CmdRaw
    \/ CmdResume

WatcherStep == WatcherStop \/ WatcherFire

CtlNext ==
    \/ MainInitClear \/ MainInitMode \/ MainInitModeRead \/ MainStatusSend
    \/ MainStatusRead \/ MainInitVerify \/ MainArmArea \/ MainArmTime
    \/ MainStartWatcher \/ MainLoopTop \/ MainAutoExitPoll \/ MainStatusClear
    \/ MainStatusSet \/ MainWatchTop \/ MainWatchSet \/ MainWatchSleep
    \/ MainPreTop \/ MainPreSet \/ MainResumeArm \/ MainFinally
    \/ CmdExit \/ CmdStatus \/ CmdWatch \/ WatchInterrupt \/ CmdManual \/ CmdRaw
    \/ CmdResume
    \/ WatcherStop \/ WatcherFire
    \/ RxLoopTest \/ RxReadLinesReturn
    \/ SchedNextAddr \/ SchedStopCheck1 \/ SchedPauseRead \/ SchedPauseStopRead
    \/ SchedStopCheck2 \/ SchedDurationCheck \/ SchedMaxCheck \/ SchedFirstShotDelay
    \/ SchedInject \/ SchedAfterShot \/ SchedCadenceWait \/ SchedExitNote

\* ------------------------------------------------------ sem_console.py
\* fi/console/sem_console.py main(): a console with no campaign. ctl.pc is
\* "sc_prompt" at input(), "sc_watch" inside the watch loop, "sc_finally" once
\* the loop is left; ctl.driven is the local variable driven.
ScAtPrompt == ctl.pc = "sc_prompt" /\ env.cmdLeft > 0

\* _do_status(): with the RX printer paused, proto.status() sends S; the
\* counters it returns are logged
ScDoStatus ==
    /\ tx' = Append(tx, <<"S">>)
    /\ \E seen \in BOOLEAN :
          /\ seen \/ env.silentLeft > 0
          /\ log' = IF seen THEN Append(log, <<"RX", <<"counters">>>>) ELSE log
          /\ env' = [env EXCEPT
                 !.cmdLeft = IF ctl.pc = "sc_prompt" THEN env.cmdLeft - 1
                             ELSE env.cmdLeft,
                 !.watchLeft = IF ctl.pc = "sc_watch" THEN env.watchLeft - 1
                               ELSE env.watchLeft,
                 !.silentLeft = IF seen THEN env.silentLeft ELSE env.silentLeft - 1]

\* 'exit' in either mode, end of input, Ctrl+C at the prompt: break
ScCmdExit ==
    /\ ScAtPrompt
    /\ Typed
    /\ ctl' = [ctl EXCEPT !.pc = "sc_finally"]
    /\ hist' = [hist EXCEPT !.userEnd = TRUE]
    /\ UNCHANGED <<cfg, area, sch, ack_tracker, pause_evt, stop_evt, rxq, rxBatch, tx,
                   linkUp, log, obs>>

\* 'help' and 'sem' in either mode: text on the terminal; continue
ScCmdHelp ==
    /\ ScAtPrompt
    /\ Typed
    /\ UNCHANGED <<ctl, hist, cfg, area, sch, ack_tracker, pause_evt, stop_evt, rxq,
                   rxBatch, tx, linkUp, log, obs>>

\* 'manual' in driven mode: driven = False
ScCmdManual ==
    /\ ScAtPrompt
    /\ ctl.driven
    /\ Typed
    /\ ctl' = [ctl EXCEPT !.driven = FALSE]
    /\ UNCHANGED <<hist, cfg, area, sch, ack_tracker, pause_evt, stop_evt, rxq, rxBatch,
                   tx, linkUp, log, obs>>

\* 'status' in driven mode
ScCmdStatus ==
    /\ ScAtPrompt
    /\ ctl.driven
    /\ ScDoStatus
    /\ UNCHANGED <<ctl, hist, cfg, area, sch, ack_tracker, pause_evt, stop_evt, rxq,
                   rxBatch, linkUp, obs>>

\* 'watch' in driven mode: the loop of _do_status() is entered
ScCmdWatch ==
    /\ ScAtPrompt
    /\ ctl.driven
    /\ Typed
    /\ ctl' = [ctl EXCEPT !.pc = "sc_watch"]
    /\ UNCHANGED <<hist, cfg, area, sch, ack_tracker, pause_evt, stop_evt, rxq, rxBatch,
                   tx, linkUp, log, obs>>

\* one round of the watch loop: _do_status(), then the sleep
ScWatchRound ==
    /\ ctl.pc = "sc_watch"
    /\ env.watchLeft > 0
    /\ ScDoStatus
    /\ UNCHANGED <<ctl, hist, cfg, area, sch, ack_tracker, pause_evt, stop_evt, rxq,
                   rxBatch, linkUp, obs>>

\* Ctrl+C ends the watch loop: except KeyboardInterrupt ... continue
ScWatchInterrupt ==
    /\ ctl.pc = "sc_watch"
    /\ ctl' = [ctl EXCEPT !.pc = "sc_prompt"]
    /\ UNCHANGED <<hist, cfg, area, sch, ack_tracker, pause_evt, stop_evt, rxq, rxBatch,
                   tx, linkUp, log, env, obs>>

\* 'resume' in manual mode: driven = True
ScCmdResume ==
    /\ ScAtPrompt
    /\ ~ctl.driven
    /\ Typed
    /\ ctl' = [ctl EXCEPT !.driven = TRUE]
    /\ UNCHANGED <<hist, cfg, area, sch, ack_tracker, pause_evt, stop_evt, rxq, rxBatch,
                   tx, linkUp, log, obs>>

\* any other line: "Command disabled in driven mode" in driven mode, the raw
\* pass-through (log_tx, write_line) in manual mode
ScCmdOther ==
    /\ ScAtPrompt
    /\ Typed
    /\ IF ctl.driven
       THEN /\ log' = log
            /\ tx' = tx
            /\ hist' = [hist EXCEPT !.refused = hist.refused + 1]
       ELSE /\ log' = Append(log, <<"TX", <<"raw">>>>)
            /\ tx' = Append(tx, <<"raw">>)
            /\ hist' = hist
    /\ UNCHANGED <<ctl, cfg, area, sch, ack_tracker, pause_evt, stop_evt, rxq, rxBatch,
                   linkUp, obs>>

\* finally: stop_evt.set(); log.close(); tr.close()
ScFinally ==
    /\ ctl.pc = "sc_finally"
    /\ stop_evt' = TRUE
    /\ ctl' = [ctl EXCEPT !.pc = "sc_returned", !.tr_closed = TRUE,
                          !.log_closed = TRUE]
    /\ UNCHANGED <<hist, cfg, area, sch, ack_tracker, pause_evt, rxq, rxBatch, tx,
                   linkUp, log, env, obs>>

\* a gated uniform campaign with device traffic, the RX loop taken by statement
RxStart ==
    InitFrom({[cfg |-> WithOptions(UniformShape, TRUE, FALSE, Nil, n),
               env |-> Budget(MaxRx, 0, 0, 0)] : n \in 1..MaxAckLen})

RxNext ==
    \/ DeviceEmit
    \/ RxLoopTest \/ RxReadLinesReturn \/ RxFeedTracker \/ RxLogLine
    \/ SchedNextAddr \/ SchedStopCheck1 \/ SchedPauseRead \/ SchedStopCheck2
    \/ SchedDurationCheck \/ SchedMaxCheck \/ SchedFirstShotDelay \/ SchedAckStart
    \/ SchedInject \/ SchedAckWaitEnter \/ SchedAckWaitReturn \/ SchedAfterShot
    \/ SchedCadenceWait \/ SchedExitNote

RxSpec == RxStart /\ [][RxNext]_vars

\* the device answers the oldest injection not yet answered with "SC 00"; the
\* i-th line of hist.arrived is then the answer to the i-th injection
DeviceAnswer ==
    /\ Len(hist.arrived) < Injections(tx)
    /\ Len(rxq) < MaxQueue
    /\ rxq' = Append(rxq, LineSC00)
    /\ hist' = [hist EXCEPT !.arrived = Append(hist.arrived, LineSC00)]
    /\ UNCHANGED <<ctl, cfg, area, sch, ack_tracker, pause_evt, stop_evt, rxBatch, tx,
                   linkUp, log, env, obs>>

\* a gated uniform campaign over MaxAckLen addresses; the device answers every
\* injection once, sooner or later than the ack timeout
AnswerStart ==
    InitFrom({[cfg |-> WithOptions(UniformShape, TRUE, FALSE, Nil, MaxAckLen),
               env |-> Budget(0, 0, 0, 0)]})

AnswerNext ==
    \/ DeviceAnswer
    \/ RxLoopTest \/ RxReadLinesReturn \/ RxFeedTracker \/ RxLogLine
    \/ SchedNextAddr \/ SchedStopCheck1 \/ SchedPauseRead \/ SchedStopCheck2
    \/ SchedDurationCheck \/ SchedMaxCheck \/ SchedFirstShotDelay \/ SchedAckStart
    \/ SchedInject \/ SchedAckWaitEnter \/ SchedAckWaitReturn \/ SchedAfterShot
    \/ SchedCadenceWait \/ SchedExitNote

AnswerSpec == AnswerStart /\ [][AnswerNext]_vars

\* read_until_prompt() of a synchronized exchange takes the lines the transport
\* has queued; _do_status() parses them for counters and feeds none to on_rx()
MainStatusTakeLines ==
    /\ ctl.pc = "status_read"
    /\ rxq # <<>>
    /\ rxq' = <<>>
    /\ UNCHANGED <<ctl, hist, cfg, area, sch, ack_tracker, pause_evt, stop_evt, rxBatch,
                   tx, linkUp, log, env, obs>>

\* a gated uniform campaign runs in driven mode and the device answers every
\* injection; the user may type 'status', 'watch' and 'exit'
ExchangeStart ==
    /\ \E oe \in OnEnd :
          ctl = CtlDriven(oe, 1)
    /\ cfg = WithOptions(UniformShape, TRUE, FALSE, Nil, 1)
    /\ env = CtlBudget(MaxCmds, 0, 1, MaxWatch, 0)
    /\ area = [addrs |-> AddrList(cfg.nAddr), idx |-> 0]
    /\ sch = SchInit(cfg)
    /\ ack_tracker = AckInit
    /\ pause_evt = FALSE
    /\ stop_evt = FALSE
    /\ rxq = <<>>
    /\ rxBatch = <<>>
    /\ tx = <<>>
    /\ linkUp = TRUE
    /\ log = <<>>
    /\ obs = ObsInit
    /\ hist = [HistInit EXCEPT !.armings = 1, !.campaigns = 1,
                               !.constructed = <<"area", "time">>]

ExchangeNext ==
    \/ MainLoopTop \/ MainAutoExitPoll \/ CmdExit \/ MainFinally
    \/ CmdStatus \/ MainStatusClear \/ MainStatusSend \/ MainStatusTakeLines
    \/ MainStatusRead \/ MainStatusSet
    \/ CmdWatch \/ MainWatchTop \/ MainWatchSet \/ MainWatchSleep \/ WatchInterrupt
    \/ WatcherStop \/ WatcherFire
    \/ DeviceAnswer
    \/ RxLoopTest \/ RxReadLinesReturn \/ RxFeedTracker \/ RxLogLine
    \/ SchedNextAddr \/ SchedStopCheck1 \/ SchedPauseRead \/ SchedStopCheck2
    \/ SchedDurationCheck \/ SchedMaxCheck \/ SchedFirstShotDelay \/ SchedAckStart
    \/ SchedInject \/ SchedAckWaitEnter \/ SchedAckWaitReturn \/ SchedAfterShot
    \/ SchedCadenceWait \/ SchedExitNote

ExchangeSpec == ExchangeStart /\ [][ExchangeNext]_vars

\* a gated uniform campaign armed at start-up runs in driven mode; the user may
\* type 'manual', 'resume' and 'exit', the device answers
ReArmStart ==
    /\ \E oe \in OnEnd :
          ctl = CtlDriven(oe, 1)
    /\ cfg = WithOptions(UniformShape, TRUE, FALSE, Nil, 1)
    /\ env = CtlBudget(MaxReArmCmds, 0, 0, 0, MaxReArmRx)
    /\ area = [addrs |-> AddrList(cfg.nAddr), idx |-> 0]
    /\ sch = SchInit(cfg)
    /\ ack_tracker = AckInit
    /\ pause_evt = FALSE
    /\ stop_evt = FALSE
    /\ rxq = <<>>
    /\ rxBatch = <<>>
    /\ tx = <<>>
    /\ linkUp = TRUE
    /\ log = <<>>
    /\ obs = ObsInit
    /\ hist = [HistInit EXCEPT !.armings = 1, !.campaigns = 1,
                               !.constructed = <<"area", "time">>]

ReArmNext ==
    \/ MainLoopTop \/ MainAutoExitPoll \/ CmdManual \/ CmdResume \/ CmdExit
    \/ MainPreTop \/ MainStatusSend \/ MainStatusRead \/ MainPreSet
    \/ MainResumeArm \/ MainFinally
    \/ WatcherStop \/ WatcherFire
    \/ DeviceEmit
    \/ RxLoopTest \/ RxReadLinesReturn \/ RxFeedTracker \/ RxLogLine
    \/ SchedNextAddr \/ SchedStopCheck1 \/ SchedPauseRead \/ SchedPauseStopRead
    \/ SchedStopCheck2 \/ SchedDurationCheck \/ SchedMaxCheck \/ SchedFirstShotDelay
    \/ SchedAckStart \/ SchedInject \/ SchedAckWaitEnter \/ SchedAckWaitReturn
    \/ SchedAfterShot \/ SchedCadenceWait \/ SchedExitNote

ReArmSpec == ReArmStart /\ [][ReArmNext]_vars

\* lines the user types in a session of DrivenSpec
MaxDrivenCmds == 2

\* the two consoles at their prompt: fault_injection.py with the campaign armed
\* at start-up running in driven mode, sem_console.py in the mode --manual chose
DrivenStart ==
    /\ cfg = WithOptions(UniformShape, FALSE, FALSE, Nil, 1)
    /\ \/ \E oe \in OnEnd :
             /\ ctl = CtlDriven(oe, 1)
             /\ sch = SchInit(cfg)
             /\ area = [addrs |-> AddrList(cfg.nAddr), idx |-> 0]
             /\ hist = [HistInit EXCEPT !.armings = 1, !.campaigns = 1,
                                        !.constructed = <<"area", "time">>]
       \/ \E manual \in BOOLEAN :
             /\ ctl = [CtlInit("manual", 1) EXCEPT !.pc = "sc_prompt",
                                                   !.driven = ~manual]
             /\ sch = [SchInit(cfg) EXCEPT !.pc = "created"]
             /\ area = NoArea
             /\ hist = HistInit
    /\ env = CtlBudget(MaxDrivenCmds, 0, MaxSilent, MaxWatch, 0)
    /\ ack_tracker = AckInit
    /\ pause_evt = FALSE
    /\ stop_evt = FALSE
    /\ rxq = <<>>
    /\ rxBatch = <<>>
    /\ tx = <<>>
    /\ linkUp = TRUE
    /\ log = <<>>
    /\ obs = ObsInit

DrivenNext ==
    \/ MainLoopTop \/ MainAutoExitPoll \/ MainStatusClear \/ MainStatusSend
    \/ MainStatusRead \/ MainStatusSet \/ MainWatchTop \/ MainWatchSet \/ MainWatchSleep
    \/ MainPreTop \/ MainPreSet \/ MainResumeArm \/ MainFinally
    \/ CmdExit \/ CmdStatus \/ CmdWatch \/ WatchInterrupt \/ CmdManual \/ CmdRaw
    \/ CmdResume
    \/ WatcherStop \/ WatcherFire
    \/ SchedNextAddr \/ SchedStopCheck1 \/ SchedPauseRead \/ SchedPauseStopRead
    \/ SchedStopCheck2 \/ SchedDurationCheck \/ SchedMaxCheck \/ SchedFirstShotDelay
    \/ SchedInject \/ SchedAfterShot \/ SchedCadenceWait \/ SchedExitNote
    \/ ScCmdExit \/ ScCmdHelp \/ ScCmdManual \/ ScCmdStatus \/ ScCmdWatch
    \/ ScWatchRound \/ ScWatchInterrupt \/ ScCmdResume \/ ScCmdOther \/ ScFinally

DrivenSpec == DrivenStart /\ [][DrivenNext]_vars

\* Ctrl+C while a query of 'watch' is under way. rx_enabled.clear() (line 1062)
\* stands before the try statement whose finally sets the flag again: the
\* KeyboardInterrupt raised once the query runs passes through the finally,
\* the one raised as clear() returns does not; "except KeyboardInterrupt"
\* (line 1068) catches both and the console goes on
WatchInterruptInQuery ==
    /\ ctl.pc \in {"status_send", "status_read"}
    /\ ctl.ret = "watch_set"
    /\ \E in_try \in BOOLEAN :
          /\ ctl.pc = "status_read" => in_try
          /\ ctl' = [ctl EXCEPT !.pc = "loop", !.rx_enabled = in_try]
    /\ UNCHANGED <<hist, cfg, area, sch, ack_tracker, pause_evt, stop_evt, rxq, rxBatch,
                   tx, linkUp, log, env, obs>>

\* fault_injection.py at its driven prompt with a campaign running; the user
\* types 'status', 'watch', 'manual' and 'resume', and stops 'watch' with Ctrl+C
\* at any moment
InterruptStart ==
    /\ cfg = WithOptions(UniformShape, FALSE, FALSE, Nil, 1)
    /\ \E oe \in OnEnd : ctl = CtlDriven(oe, 1)
    /\ sch = SchInit(cfg)
    /\ area = [addrs |-> AddrList(cfg.nAddr), idx |-> 0]
    /\ hist = [HistInit EXCEPT !.armings = 1, !.campaigns = 1,
                               !.constructed = <<"area", "time">>]
    /\ env = CtlBudget(MaxDrivenCmds, 0, 1, MaxWatch, 0)
    /\ ack_tracker = AckInit
    /\ pause_evt = FALSE
    /\ stop_evt = FALSE
    /\ rxq = <<>>
    /\ rxBatch = <<>>
    /\ tx = <<>>
    /\ linkUp = TRUE
    /\ log = <<>>
    /\ obs = ObsInit

InterruptNext ==
    \/ MainLoopTop \/ MainAutoExitPoll \/ CmdExit \/ MainFinally
    \/ CmdStatus \/ MainStatusClear \/ MainStatusSend \/ MainStatusRead \/ MainStatusSet
    \/ CmdWatch \/ MainWatchTop \/ MainWatchSet \/ MainWatchSleep \/ WatchInterrupt
    \/ WatchInterruptInQuery
    \/ CmdManual \/ CmdResume \/ MainPreTop \/ MainPreSet \/ MainResumeArm
    \/ WatcherStop \/ WatcherFire
    \/ RxLoopTest \/ RxReadLinesReturn
    \/ SchedNextAddr \/ SchedStopCheck1 \/ SchedPauseRead \/ SchedPauseStopRead
    \/ SchedStopCheck2 \/ SchedDurationCheck \/ SchedMaxCheck \/ SchedFirstShotDelay
    \/ SchedInject \/ SchedAfterShot \/ SchedCadenceWait \/ SchedExitNote

InterruptSpec == InterruptStart /\ [][InterruptNext]_vars

\* addresses of the campaign the user interrupts with 'manual', and lines typed
MaxManualLen == 2
MaxManualCmds == 2

\* fault_injection.py at its driven prompt, an ungated uniform campaign of
\* several addresses just started
ManualStart ==
    /\ cfg = WithOptions(UniformShape, FALSE, FALSE, Nil, MaxManualLen)
    /\ \E oe \in OnEnd : ctl = CtlDriven(oe, 1)
    /\ sch = SchInit(cfg)
    /\ area = [addrs |-> AddrList(cfg.nAddr), idx |-> 0]
    /\ hist = [HistInit EXCEPT !.armings = 1, !.campaigns = 1,
                               !.constructed = <<"area", "time">>]
    /\ env = CtlBudget(MaxManualCmds, 0, MaxSilent, 0, 0)
    /\ ack_tracker = AckInit
    /\ pause_evt = FALSE
    /\ stop_evt = FALSE
    /\ rxq = <<>>
    /\ rxBatch = <<>>
    /\ tx = <<>>
    /\ linkUp = TRUE
    /\ log = <<>>
    /\ obs = ObsInit

ManualNext ==
    \/ MainLoopTop \/ MainAutoExitPoll \/ MainFinally
    \/ CmdExit \/ CmdManual \/ CmdResume
    \/ MainPreTop \/ MainPreSet \/ MainStatusSend \/ MainStatusRead \/ MainResumeArm
    \/ WatcherStop \/ WatcherFire
    \/ SchedNextAddr \/ SchedStopCheck1 \/ SchedPauseRead \/ SchedPauseStopRead
    \/ SchedStopCheck2 \/ SchedDurationCheck \/ SchedMaxCheck \/ SchedFirstShotDelay
    \/ SchedInject \/ SchedAfterShot \/ SchedCadenceWait \/ SchedExitNote

ManualSpec == ManualStart /\ [][ManualNext]_vars

\* ------------------------------------------------------ address_list
\* lines of the address file
MaxFileLines == 2

\* calls made on a constructed profile
MaxCalls == 6

\* integer seeds 0..MaxSeed; also the values random.Random(None) may seed from
MaxSeed == 1

HexUpper == {"0", "1", "2", "3", "4", "5", "6", "7", "8", "9",
             "A", "B", "C", "D", "E", "F"}

HexLower == {"a", "b", "c", "d", "e", "f"}

\* str.upper() on one character
Upper(c) ==
    CASE c = "a" -> "A" [] c = "b" -> "B" [] c = "c" -> "C" [] c = "d" -> "D"
      [] c = "e" -> "E" [] c = "f" -> "F" [] OTHER -> c

UpperStr(s) == [i \in 1..Len(s) |-> Upper(s[i])]

RECURSIVE LStrip(_)
LStrip(s) == IF s # <<>> /\ IsWs(Head(s)) THEN LStrip(Tail(s)) ELSE s

RECURSIVE RStrip(_)
RStrip(s) ==
    IF s # <<>> /\ IsWs(s[Len(s)]) THEN RStrip(SubSeq(s, 1, Len(s) - 1)) ELSE s

\* str.strip()
Strip(s) == RStrip(LStrip(s))

\* mutant: the pattern without its length
Hex10MatchAnyLength(s) == \A i \in 1..Len(s) : s[i] \in HexUpper \cup HexLower

\* _HEX10_RE = ^[0-9A-Fa-f]{10}$
Hex10Match(s) ==
    /\ Len(s) = 10
    /\ \A i \in 1..10 : s[i] \in HexUpper \cup HexLower

\* lines an address file may hold (without the line terminator)
LfaUpper == <<"0", "0", "A", "1", "B", "2", "C", "3", "D", "4">>

LfaLower == <<"0", "0", "a", "1", "b", "2", "c", "3", "d", "5">>

LfaPadded == <<" ", "F", "F", "E", "E", "0", "0", "1", "1", "9", "9", "\t">>

LfaShort == <<"0", "0", "A", "1", "B", "2", "C", "3", "D">>

LfaLong == <<"0", "0", "A", "1", "B", "2", "C", "3", "D", "4", "4">>

LfaNonHex == <<"0", "0", "A", "1", "B", "2", "C", "3", "D", "G">>

LineBlank == <<" ", "\t">>

LineComment == <<" ", "#", " ", "L", "F", "A">>

FileLines ==
    {LfaUpper, LfaLower, LfaPadded, LfaShort, LfaLong, LfaNonHex, LineBlank,
     LineComment}

Files == UNION {[1..n -> FileLines] : n \in 0..MaxFileLines}

\* load_addresses_file(): each line stripped; empty lines and lines starting
\* with '#' are skipped
RECURSIVE load_addresses_file(_)
load_addresses_file(file) ==
    IF file = <<>> THEN <<>>
    ELSE LET s == Strip(Head(file))
         IN  IF s = <<>> \/ s[1] = "#"
             THEN load_addresses_file(Tail(file))
             ELSE <<s>> \o load_addresses_file(Tail(file))

\* values of the 'mode' and 'order' arguments, after str().strip().lower()
ModeArgs ==
    {[mode |-> Some("sequential"), order |-> Nil],
     [mode |-> Some("random"), order |-> Nil],
     [mode |-> Nil, order |-> Some("shuffle")],
     [mode |-> Some("zigzag"), order |-> Some("sequential")],
     [mode |-> Nil, order |-> Nil]}

\* one candidate of lines 96-105: the mode it selects, or Nil to go on
ModeOf(candidate) ==
    IF candidate = Nil THEN Nil
    ELSE IF Val(candidate) \in {"sequential", "random"} THEN candidate
    ELSE IF Val(candidate) = "shuffle" THEN Some("random")
    ELSE Nil

\* canonical_mode of lines 92-105 (Nil: none found)
CanonicalMode(m) == IF ModeOf(m.mode) # Nil THEN ModeOf(m.mode) ELSE ModeOf(m.order)

\* values of the 'seed' argument: absent, an integer, or a text int() rejects
\* ("None", "", "1.5")
SeedArgs ==
    {<<"absent">>, <<"text">>} \cup {<<"int", n>> : n \in 0..MaxSeed}

\* _coerce_int(v, None)
CoerceInt(v) == IF v[1] = "int" THEN Some(v[2]) ELSE Nil

\* random.Random(x) draw number k below bound: the generator is a fixed
\* function of what it was seeded with
RandBelow(x, k, bound) == ((x + 1) * k) % bound

\* random.shuffle(): for i from the last index down to the second, swap
\* element i with element randbelow(i + 1); k counts the draws
RECURSIVE Shuffle(_, _, _, _)
Shuffle(x, out, i, k) ==
    IF i < 2 THEN out
    ELSE LET j == 1 + RandBelow(x, k, i)
         IN  Shuffle(x, [out EXCEPT ![i] = out[j], ![j] = out[i]], i - 1, k + 1)

\* apply_ordering(addresses, order, seed): a copy, shuffled under "shuffle";
\* entropy is what Random(None) seeds itself from
apply_ordering(addresses, order, seed, entropy) ==
    IF order = "shuffle"
    THEN Shuffle(IF seed = Nil THEN entropy ELSE Val(seed), addresses,
                 Len(addresses), 1)
    ELSE addresses

\* Profile.__init__ of address_list: the stored list, or the ValueError
ProfileInit(c, entropy) ==
    LET raw_addrs == load_addresses_file(c.file)
        canonical_mode == CanonicalMode(c.mode)
    IN  IF \E i \in 1..Len(raw_addrs) : ~Hex10Match(Strip(raw_addrs[i]))
        THEN [ok |-> FALSE, addrs |-> <<>>]
        ELSE IF canonical_mode = Nil
        THEN [ok |-> FALSE, addrs |-> <<>>]
        ELSE [ok |-> TRUE,
              addrs |-> apply_ordering(
                  [i \in 1..Len(raw_addrs) |-> UpperStr(Strip(raw_addrs[i]))],
                  IF Val(canonical_mode) = "random" THEN "shuffle" ELSE "sequential",
                  CoerceInt(c.seed), entropy)]

\* what the properties read of a session with an address_list profile
AreaObsInit ==
    [built |-> "no",            \* the construction: not done, "ok", or "error"
     twin |-> Nil,              \* _addrs of a second profile built from the same
                                \* arguments, once it is built
     returned |-> <<>>,         \* addresses returned since construction or reset()
     yielded |-> <<>>,          \* every address returned since construction
     last |-> Nil,              \* the last call: cursor before it, what it returned
                                \* (Nil: None, or the generator ended)
     resets |-> 0]              \* reset() calls

\* an address file, the mode and seed arguments; no profile constructed yet
AreaStart ==
    /\ \E f \in Files, m \in ModeArgs, sd \in SeedArgs :
          cfg = [file |-> f, mode |-> m, seed |-> sd]
    /\ area = NoArea
    /\ env = [callsLeft |-> MaxCalls]
    /\ obs = AreaObsInit
    /\ sch = Nil
    /\ ack_tracker = Nil
    /\ pause_evt = FALSE
    /\ stop_evt = FALSE
    /\ rxq = <<>>
    /\ rxBatch = <<>>
    /\ tx = <<>>
    /\ linkUp = TRUE
    /\ log = <<>>
    /\ ctl = Nil
    /\ hist = Nil

AreaUnchanged ==
    UNCHANGED <<cfg, sch, ack_tracker, pause_evt, stop_evt, rxq, rxBatch, tx, linkUp,
                log, ctl, hist>>

\* Profile(**kwargs)
AreaConstruct ==
    /\ obs.built = "no"
    /\ \E entropy \in 0..MaxSeed :
          LET p == ProfileInit(cfg, entropy)
          IN  /\ area' = [addrs |-> p.addrs, idx |-> 0]
              /\ obs' = [obs EXCEPT !.built = IF p.ok THEN "ok" ELSE "error"]
    /\ UNCHANGED env
    /\ AreaUnchanged

\* a second Profile(**kwargs) with the same arguments, before the first is used
AreaConstructTwin ==
    /\ obs.built = "ok"
    /\ obs.twin = Nil
    /\ env.callsLeft = MaxCalls
    /\ \E entropy \in 0..MaxSeed :
          obs' = [obs EXCEPT !.twin = Some(ProfileInit(cfg, entropy).addrs)]
    /\ UNCHANGED <<area, env>>
    /\ AreaUnchanged

AreaCall(op, r) ==
    /\ area' = r.area
    /\ env' = [env EXCEPT !.callsLeft = env.callsLeft - 1]
    /\ obs' = [obs EXCEPT
           !.returned = IF r.ret = Nil THEN obs.returned
                        ELSE Append(obs.returned, r.ret),
           !.yielded = IF r.ret = Nil THEN obs.yielded
                       ELSE Append(obs.yielded, r.ret),
           !.last = Some([op |-> op, at |-> area.idx, ret |-> r.ret])]
    /\ AreaUnchanged

\* next_address()
AreaNext ==
    /\ obs.built = "ok"
    /\ env.callsLeft > 0
    /\ AreaCall("next_address", NextAddress(area, Nil))

\* next() on the generator of iter_addresses(): it yields next_address() while
\* the cursor is inside the list, and ends otherwise
AreaIterNext ==
    /\ obs.built = "ok"
    /\ env.callsLeft > 0
    /\ IF area.idx < Len(area.addrs)
       THEN AreaCall("iter_addresses", NextAddress(area, Nil))
       ELSE AreaCall("iter_addresses", [ret |-> Nil, area |-> area])

\* mutant: reset() leaves the cursor where it is
AreaResetKeepsCursor ==
    /\ obs.built = "ok"
    /\ env.callsLeft > 0
    /\ area' = area
    /\ env' = [env EXCEPT !.callsLeft = env.callsLeft - 1]
    /\ obs' = [obs EXCEPT !.returned = <<>>, !.last = Nil,
                          !.resets = obs.resets + 1]
    /\ AreaUnchanged

\* reset()
AreaReset ==
    /\ obs.built = "ok"
    /\ env.callsLeft > 0
    /\ area' = [area EXCEPT !.idx = 0]
    /\ env' = [env EXCEPT !.callsLeft = env.callsLeft - 1]
    /\ obs' = [obs EXCEPT !.returned = <<>>, !.last = Nil,
                          !.resets = obs.resets + 1]
    /\ AreaUnchanged

AreaSpecNext ==
    AreaConstruct \/ AreaConstructTwin \/ AreaNext \/ AreaIterNext \/ AreaReset

AreaSpec == AreaStart /\ [][AreaSpecNext]_vars

\* ------------------------------------------------------ uniform cadence
\* The uniform profile's run() against a clock: period > 0, ack gating off,
\* no duration and no shot cap. env.now is time.perf_counter(), in ticks.
MaxTime == 5

MaxPeriod == 2

MaxTimedShots == 3

TimedStart ==
    /\ \E p \in 1..MaxPeriod, n \in 1..MaxTimedShots :
          /\ cfg = [profile |-> "uniform", period |-> p, nAddr |-> n]
          /\ area = [addrs |-> AddrList(n), idx |-> 0]
    /\ \E t \in 0..1 :
          env = [now |-> t, stopLeft |-> 1, pauseLeft |-> 1]
    /\ sch = [pc |-> "t0", t0 |-> 0, k |-> 0, shots |-> 0, next_deadline |-> 0,
              addr |-> 0]
    /\ obs = [sent |-> <<>>]        \* per shot: when it was sent, and the
                                    \* deadline computed after it
    /\ ack_tracker = Nil
    /\ pause_evt = FALSE
    /\ stop_evt = FALSE
    /\ rxq = <<>>
    /\ rxBatch = <<>>
    /\ tx = <<>>
    /\ linkUp = TRUE
    /\ log = <<>>
    /\ ctl = Nil
    /\ hist = Nil

TimedUnchanged == UNCHANGED <<cfg, ack_tracker, rxq, rxBatch, linkUp, log, ctl, hist>>

\* time passes
Tick ==
    /\ env.now < MaxTime
    /\ sch.pc # "done"
    /\ env' = [env EXCEPT !.now = env.now + 1]
    /\ UNCHANGED <<area, sch, obs, pause_evt, stop_evt, tx>>
    /\ TimedUnchanged

\* t0 = self._now(); k = 0
TimedBase ==
    /\ sch.pc = "t0"
    /\ sch' = [sch EXCEPT !.pc = "for", !.t0 = env.now, !.k = 0]
    /\ UNCHANGED <<area, env, obs, pause_evt, stop_evt, tx>>
    /\ TimedUnchanged

\* for addr in addr_it: the next address, or the loop ends
TimedNextAddr ==
    /\ sch.pc = "for"
    /\ LET r == AreaNextAddress(area)
       IN  /\ area' = r.area
           /\ sch' = [sch EXCEPT !.pc = IF AreaHasNext(area) THEN "stop1" ELSE "done",
                                 !.addr = r.ret]
    /\ UNCHANGED <<env, obs, pause_evt, stop_evt, tx>>
    /\ TimedUnchanged

\* if self.stop_evt.is_set(): break (lines 207-208 and 213-214)
TimedStopCheck ==
    /\ sch.pc \in {"stop1", "stop2"}
    /\ sch' = [sch EXCEPT !.pc = IF stop_evt THEN "done"
                                 ELSE IF sch.pc = "stop1" THEN "pause" ELSE "inject"]
    /\ UNCHANGED <<area, env, obs, pause_evt, stop_evt, tx>>
    /\ TimedUnchanged

\* while self.pause_evt.is_set() and not self.stop_evt.is_set(): time.sleep(0.05)
TimedPauseWait ==
    /\ sch.pc = "pause"
    /\ sch' = [sch EXCEPT !.pc = IF pause_evt /\ ~stop_evt THEN "pause" ELSE "stop2"]
    /\ UNCHANGED <<area, env, obs, pause_evt, stop_evt, tx>>
    /\ TimedUnchanged

\* mutant: the deadline is taken from the clock, as under ack gating
TimedInjectFromNow ==
    /\ sch.pc = "inject"
    /\ tx' = Append(tx, <<"N", sch.addr>>)
    /\ sch' = [sch EXCEPT !.pc = "sleep", !.k = sch.k + 1, !.shots = sch.shots + 1,
                          !.next_deadline = env.now + cfg.period]
    /\ obs' = [obs EXCEPT !.sent = Append(obs.sent,
                  [at |-> env.now, deadline |-> env.now + cfg.period])]
    /\ UNCHANGED <<area, env, pause_evt, stop_evt>>
    /\ TimedUnchanged

\* self._inject(addr); k += 1; next_deadline = t0 + k * self.period; shots += 1
\* (the first-shot delay before it is time passing)
TimedInject ==
    /\ sch.pc = "inject"
    /\ tx' = Append(tx, <<"N", sch.addr>>)
    /\ sch' = [sch EXCEPT !.pc = "sleep", !.k = sch.k + 1, !.shots = sch.shots + 1,
                          !.next_deadline = sch.t0 + (sch.k + 1) * cfg.period]
    /\ obs' = [obs EXCEPT !.sent = Append(obs.sent,
                  [at |-> env.now,
                   deadline |-> sch.t0 + (sch.k + 1) * cfg.period])]
    /\ UNCHANGED <<area, env, pause_evt, stop_evt>>
    /\ TimedUnchanged

\* _sleep_until(next_deadline) returns: the clock has reached the deadline
TimedSleepUntil ==
    /\ sch.pc = "sleep"
    /\ env.now >= sch.next_deadline
    /\ sch' = [sch EXCEPT !.pc = "for"]
    /\ UNCHANGED <<area, env, obs, pause_evt, stop_evt, tx>>
    /\ TimedUnchanged

\* the owner of the flags sets stop, sets pause, clears pause
TimedSetStop ==
    /\ env.stopLeft > 0
    /\ sch.pc # "done"
    /\ stop_evt' = TRUE
    /\ env' = [env EXCEPT !.stopLeft = env.stopLeft - 1]
    /\ UNCHANGED <<area, sch, obs, pause_evt, tx>>
    /\ TimedUnchanged

TimedSetPause ==
    /\ env.pauseLeft > 0
    /\ sch.pc # "done"
    /\ ~pause_evt
    /\ pause_evt' = TRUE
    /\ env' = [env EXCEPT !.pauseLeft = env.pauseLeft - 1]
    /\ UNCHANGED <<area, sch, obs, stop_evt, tx>>
    /\ TimedUnchanged

TimedClearPause ==
    /\ pause_evt
    /\ pause_evt' = FALSE
    /\ UNCHANGED <<area, sch, obs, env, stop_evt, tx>>
    /\ TimedUnchanged

TimedNext ==
    \/ Tick \/ TimedBase \/ TimedNextAddr \/ TimedStopCheck \/ TimedPauseWait
    \/ TimedInject \/ TimedSleepUntil \/ TimedSetStop \/ TimedSetPause
    \/ TimedClearPause

TimedSpec == TimedStart /\ [][TimedNext]_vars

\* ------------------------------------------------------ area profiles, loading

\* dedupe_preserve_order(items)
RECURSIVE dedupe_preserve_order(_, _)
dedupe_preserve_order(items, seen) ==
    IF items = <<>> THEN <<>>
    ELSE IF Head(items) \in seen THEN dedupe_preserve_order(Tail(items), seen)
    ELSE <<Head(items)>> \o dedupe_preserve_order(Tail(items), seen \cup {Head(items)})

\* round_robin_merge(lists), for two lists
RECURSIVE round_robin_merge(_, _)
round_robin_merge(a, b) ==
    IF a = <<>> THEN b
    ELSE IF b = <<>> THEN a
    ELSE <<Head(a), Head(b)>> \o round_robin_merge(Tail(a), Tail(b))

\* Profile.__init__ of modules: the files are loaded, merged, optionally
\* de-duplicated and ordered; no token is examined
ModulesInit(c, entropy) ==
    LET lists == <<load_addresses_file(c.file), load_addresses_file(c.file2)>>
        merged == IF c.strategy = "roundrobin"
                  THEN round_robin_merge(lists[1], lists[2])
                  ELSE lists[1] \o lists[2]
        kept == IF c.dedupe THEN dedupe_preserve_order(merged, {}) ELSE merged
    IN  [ok |-> TRUE,
         addrs |-> apply_ordering(kept, c.order, CoerceInt(c.seed), entropy)]

\* the lines of the cache file that device keeps: stripped, upper-cased, ten
\* characters of 0-9A-F
RECURSIVE DeviceLines(_)
DeviceLines(file) ==
    IF file = <<>> THEN <<>>
    ELSE LET u == UpperStr(Strip(Head(file)))
         IN  IF Len(u) = 10 /\ \A i \in 1..10 : u[i] \in HexUpper
             THEN <<u>> \o DeviceLines(Tail(file))
             ELSE DeviceLines(Tail(file))

\* Profile.__init__ of device: the stored list, or the RuntimeError of an
\* empty one
DeviceInit(c, entropy) ==
    LET addrs == DeviceLines(c.file)
    IN  IF addrs = <<>> THEN [ok |-> FALSE, addrs |-> <<>>]
        ELSE [ok |-> TRUE,
              addrs |-> IF c.order = "shuffle"
                        THEN apply_ordering(addrs, "shuffle", CoerceInt(c.seed), entropy)
                        ELSE addrs]

\* an area profile name with its arguments and the file(s) it will read
LoadStart ==
    /\ \E f \in Files, sd \in SeedArgs, o \in {"sequential", "shuffle"} :
          \/ cfg = [area_profile |-> "address_list", file |-> f, seed |-> sd,
                    mode |-> [mode |-> Some(o), order |-> Nil]]
          \/ cfg = [area_profile |-> "device", file |-> f, seed |-> sd, order |-> o]
          \/ \E f2 \in {<<>>, <<LfaLower, LfaUpper>>},
                st \in {"concat", "roundrobin"}, d \in BOOLEAN :
                cfg = [area_profile |-> "modules", file |-> f, file2 |-> f2,
                       strategy |-> st, dedupe |-> d, order |-> o, seed |-> sd]
    /\ area = NoArea
    /\ obs = [built |-> "no"]
    /\ env = Nil
    /\ sch = Nil
    /\ ack_tracker = Nil
    /\ pause_evt = FALSE
    /\ stop_evt = FALSE
    /\ rxq = <<>>
    /\ rxBatch = <<>>
    /\ tx = <<>>
    /\ linkUp = TRUE
    /\ log = <<>>
    /\ ctl = Nil
    /\ hist = Nil

\* _load_area: fi.area.<name>.Profile(**kwargs)
LoadArea ==
    /\ obs.built = "no"
    /\ \E entropy \in 0..MaxSeed :
          LET p == CASE cfg.area_profile = "address_list" -> ProfileInit(cfg, entropy)
                     [] cfg.area_profile = "modules" -> ModulesInit(cfg, entropy)
                     [] cfg.area_profile = "device" -> DeviceInit(cfg, entropy)
          IN  /\ area' = [addrs |-> p.addrs, idx |-> 0]
              /\ obs' = [obs EXCEPT !.built = IF p.ok THEN "ok" ELSE "error"]
    /\ UNCHANGED <<cfg, env, sch, ack_tracker, pause_evt, stop_evt, rxq, rxBatch, tx,
                   linkUp, log, ctl, hist>>

\* a scheduler takes the next address of its iterator and sends "N <addr>"
LoadInject ==
    /\ obs.built = "ok"
    /\ area.idx < Len(area.addrs)
    /\ LET r == NextAddress(area, Nil)
       IN  /\ area' = r.area
           /\ tx' = ProtoInjectLfa(tx, r.ret)
    /\ UNCHANGED <<cfg, obs, env, sch, ack_tracker, pause_evt, stop_evt, rxq, rxBatch,
                   linkUp, log, ctl, hist>>

LoadNext == LoadArea \/ LoadInject

LoadSpec == LoadStart /\ [][LoadNext]_vars

\* ------------------------------------------------------ trace profile, timed

\* repetitions of the schedule
MaxTraceRepeat == 2

\* schedules of mode 'relative': times in seconds since the reference time
RelSchedules == {<<0, 1>>, <<1, 2>>, <<1>>}

\* trace.Profile.run() entered, mode = "relative", no duration bound, no shot
\* cap, no gating, and addresses for every entry of every repetition
TraceTimedStart ==
    /\ \E sc \in RelSchedules, rp \in 1..MaxTraceRepeat :
          /\ cfg = [profile |-> "trace", mode |-> "relative", schedule |-> sc,
                    repeat |-> rp]
          /\ area = [addrs |-> AddrList(Len(sc) * rp), idx |-> 0]
    /\ env = [now |-> 0, stopLeft |-> 1, pauseLeft |-> 1]
    /\ sch = [pc |-> "rep", t0 |-> Nil, seq_start |-> 0, rep_start |-> 0, r |-> 0,
              i |-> 0, deadline |-> 0, addr |-> 0, finished_reason |-> None]
    /\ obs = [sent |-> <<>>]        \* per shot: repetition, entry, when it was
                                    \* sent, when its repetition began
    /\ ack_tracker = Nil
    /\ pause_evt = FALSE
    /\ stop_evt = FALSE
    /\ rxq = <<>>
    /\ rxBatch = <<>>
    /\ tx = <<>>
    /\ linkUp = TRUE
    /\ log = <<>>
    /\ ctl = Nil
    /\ hist = Nil

\* for r in range(self.repeat): if t0 is None: t0 = self._now();
\* seq_start = t0 if self._mode == "relative" else self._now();
\* after the last repetition finished_reason = "schedule_exhausted"
TraceTimedRepTop ==
    /\ sch.pc = "rep"
    /\ sch' = IF sch.r < cfg.repeat
              THEN LET t0 == IF sch.t0 = Nil THEN env.now ELSE Val(sch.t0)
                   IN  [sch EXCEPT !.pc = "entry", !.r = sch.r + 1, !.i = 0,
                                   !.t0 = Some(t0), !.rep_start = env.now,
                                   !.seq_start = IF cfg.mode = "relative" THEN t0
                                                 ELSE env.now]
              ELSE [sch EXCEPT !.pc = "done", !.finished_reason = "schedule_exhausted"]
    /\ UNCHANGED <<area, env, obs, pause_evt, stop_evt, tx>>
    /\ TimedUnchanged

\* for val in self._schedule: the next entry, or the sequence is over;
\* if self.stop_evt.is_set(): break (lines 215-216)
TraceTimedEntry ==
    /\ sch.pc = "entry"
    /\ sch' = IF sch.i < Len(cfg.schedule) /\ ~stop_evt
              THEN [sch EXCEPT !.pc = "pause", !.i = sch.i + 1]
              ELSE [sch EXCEPT !.pc = "after"]
    /\ UNCHANGED <<area, env, obs, pause_evt, stop_evt, tx>>
    /\ TimedUnchanged

\* if self.stop_evt.is_set(): break (lines 221-222); addr = next(addr_it), the
\* scheduler returning on StopIteration; deadline = seq_start + float(val)
TraceTimedNextAddr ==
    /\ sch.pc = "stop2"
    /\ IF stop_evt
       THEN /\ sch' = [sch EXCEPT !.pc = "after"]
            /\ area' = area
       ELSE LET a == AreaNextAddress(area)
            IN  /\ area' = a.area
                /\ sch' = [sch EXCEPT
                       !.pc = IF AreaHasNext(area) THEN "wait" ELSE "done",
                       !.addr = a.ret,
                       !.deadline = sch.seq_start + cfg.schedule[sch.i]]
    /\ UNCHANGED <<env, obs, pause_evt, stop_evt, tx>>
    /\ TimedUnchanged

\* if deadline > now: self._sleep_until(deadline); self._inject(addr); shots += 1
TraceTimedInject ==
    /\ sch.pc = "wait"
    /\ env.now >= sch.deadline
    /\ tx' = Append(tx, <<"N", sch.addr>>)
    /\ obs' = [obs EXCEPT !.sent = Append(obs.sent,
                  [r |-> sch.r, i |-> sch.i, at |-> env.now,
                   rep_start |-> sch.rep_start])]
    /\ sch' = [sch EXCEPT !.pc = "entry"]
    /\ UNCHANGED <<area, env, pause_evt, stop_evt>>
    /\ TimedUnchanged

\* after the inner loop: if self.stop_evt.is_set(): break, which falls through
\* to finished_reason = "schedule_exhausted"
TraceTimedAfter ==
    /\ sch.pc = "after"
    /\ sch' = IF stop_evt
              THEN [sch EXCEPT !.pc = "done", !.finished_reason = "schedule_exhausted"]
              ELSE [sch EXCEPT !.pc = "rep"]
    /\ UNCHANGED <<area, env, obs, pause_evt, stop_evt, tx>>
    /\ TimedUnchanged

TraceTimedNext ==
    \/ Tick \/ TraceTimedRepTop \/ TraceTimedEntry \/ TimedPauseWait
    \/ TraceTimedNextAddr \/ TraceTimedInject \/ TraceTimedAfter
    \/ TimedSetStop \/ TimedSetPause \/ TimedClearPause

TraceTimedSpec == TraceTimedStart /\ [][TraceTimedNext]_vars

\* ------------------------------------------------------ _TxEchoGate

\* calls made on the gate in one run
MaxGateCalls == 14

\* _TxEchoGate.__init__; out is what print_func has been handed, in order
TxEchoGateInit == [printed |-> 0, completed |-> 0, queue |-> <<>>, out |-> <<>>]

\* mutant: the gate lets one more echo through before it queues
send_echo_one_ahead(g, text) ==
    IF g.printed <= g.completed + 1
    THEN [g EXCEPT !.out = Append(g.out, text), !.printed = g.printed + 1]
    ELSE [g EXCEPT !.queue = Append(g.queue, text)]

\* _TxEchoGate.send_echo(text), under the lock
send_echo(g, text) ==
    IF g.printed <= g.completed
    THEN [g EXCEPT !.out = Append(g.out, text), !.printed = g.printed + 1]
    ELSE [g EXCEPT !.queue = Append(g.queue, text)]

\* _TxEchoGate.on_sc00(), under the lock
on_sc00(g) ==
    LET c == g.completed + 1
    IN  IF g.queue # <<>> /\ g.printed <= c
        THEN [g EXCEPT !.completed = c, !.out = Append(g.out, Head(g.queue)),
                       !.queue = Tail(g.queue), !.printed = g.printed + 1]
        ELSE [g EXCEPT !.completed = c]

\* a fresh gate; the k-th echo submitted carries the text k
GateStart ==
    /\ obs = [gate |-> TxEchoGateInit, submitted |-> 0]
    /\ env = [callsLeft |-> MaxGateCalls]
    /\ cfg = Nil
    /\ area = Nil
    /\ sch = Nil
    /\ ack_tracker = Nil
    /\ pause_evt = FALSE
    /\ stop_evt = FALSE
    /\ rxq = <<>>
    /\ rxBatch = <<>>
    /\ tx = <<>>
    /\ linkUp = TRUE
    /\ log = <<>>
    /\ ctl = Nil
    /\ hist = Nil

\* the scheduler thread: _inj_tx_echo(cmd)
GateSendEcho ==
    /\ env.callsLeft > 0
    /\ env' = [env EXCEPT !.callsLeft = env.callsLeft - 1]
    /\ obs' = [gate |-> send_echo(obs.gate, obs.submitted + 1),
               submitted |-> obs.submitted + 1]
    /\ UNCHANGED <<cfg, area, sch, ack_tracker, pause_evt, stop_evt, rxq, rxBatch, tx,
                   linkUp, log, ctl, hist>>

\* the RX consumer: inj_tx_gate.on_sc00()
GateOnSc00 ==
    /\ env.callsLeft > 0
    /\ env' = [env EXCEPT !.callsLeft = env.callsLeft - 1]
    /\ obs' = [obs EXCEPT !.gate = on_sc00(obs.gate)]
    /\ UNCHANGED <<cfg, area, sch, ack_tracker, pause_evt, stop_evt, rxq, rxBatch, tx,
                   linkUp, log, ctl, hist>>

GateNext == GateSendEcho \/ GateOnSc00

GateSpec == GateStart /\ [][GateNext]_vars

\* ------------------------------------------------------ platform rate cap

\* cadence keys the user puts in the --time argument
MaxRateKeys == 2

\* rates in Hz, and periods in twelfths of a second, whose reciprocals are exact
Cadences == {1, 2, 3, 4, 6, 12}

\* 1.0 / x, for a rate in Hz or a period in twelfths of a second
Reciprocal(x) == CHOOSE y \in Cadences : x * y = 12

PeriodKeys == <<"period_s", "period", "period_sec">>
RateKeys == <<"rate_hz", "rate", "hz", "freq_hz", "frequency_hz">>

\* the first of the candidate keys present in kw, or None
FirstKey(keys, kw) ==
    IF \E i \in 1..Len(keys) : keys[i] \in DOMAIN kw
    THEN keys[CHOOSE i \in 1..Len(keys) :
                /\ keys[i] \in DOMAIN kw
                /\ \A j \in 1..(i - 1) : keys[j] \notin DOMAIN kw]
    ELSE None

\* _resolve_requested_rate_hz: rate_hz preferred, else 1 / period_s
resolve_requested_rate_hz(kw) ==
    IF "rate_hz" \in DOMAIN kw THEN Some(kw["rate_hz"])
    ELSE IF "period_s" \in DOMAIN kw /\ kw["period_s"] > 0
         THEN Some(Reciprocal(kw["period_s"]))
    ELSE Nil

\* kw with key k set to v
WithKey(kw, k, v) == [x \in DOMAIN kw \cup {k} |-> IF x = k THEN v ELSE kw[x]]

\* _reconcile_and_cap_time_kwargs: the kwargs handed on to the profile
reconcile_and_cap_time_kwargs(kw, cap_rate_hz) ==
    LET req == resolve_requested_rate_hz(kw)
    IN  IF req = Nil THEN kw
        ELSE LET eff_rate == IF cap_rate_hz > 0 /\ cap_rate_hz < Val(req)
                             THEN cap_rate_hz ELSE Val(req)
             IN  IF eff_rate > 0
                 THEN WithKey(WithKey(kw, "rate_hz", eff_rate),
                              "period_s", Reciprocal(eff_rate))
                 ELSE kw

\* uniform.Profile.__init__: self.period, in twelfths of a second
UniformPeriod(kw) ==
    LET pk == FirstKey(PeriodKeys, kw)
        rk == FirstKey(RateKeys, kw)
        rate_hz == IF rk = None THEN 1 ELSE kw[rk]
    IN  IF pk # None THEN kw[pk]
        ELSE IF rate_hz > 0 THEN Reciprocal(rate_hz) ELSE 0

AllRateKeys == {PeriodKeys[i] : i \in 1..Len(PeriodKeys)}
                   \cup {RateKeys[i] : i \in 1..Len(RateKeys)}

\* the user's --time kwargs and the platform cap computed from the settings
RateStart ==
    /\ \E ks \in SUBSET AllRateKeys :
          /\ Cardinality(ks) \in 1..MaxRateKeys
          /\ \E kw \in [ks -> Cadences \cup {0}], cap \in {0, 2, 4} :
                cfg = [time_kwargs |-> kw, cap_rate_hz |-> cap]
    /\ sch = [pc |-> "reconcile", time_kwargs |-> <<>>, period |-> 0]
    /\ area = Nil
    /\ env = Nil
    /\ obs = Nil
    /\ ack_tracker = Nil
    /\ pause_evt = FALSE
    /\ stop_evt = FALSE
    /\ rxq = <<>>
    /\ rxBatch = <<>>
    /\ tx = <<>>
    /\ linkUp = TRUE
    /\ log = <<>>
    /\ ctl = Nil
    /\ hist = Nil

\* main, line 757: time_kwargs = _reconcile_and_cap_time_kwargs(time_kwargs)
RateReconcile ==
    /\ sch.pc = "reconcile"
    /\ sch' = [sch EXCEPT !.pc = "arm",
                          !.time_kwargs = reconcile_and_cap_time_kwargs(
                                              cfg.time_kwargs, cfg.cap_rate_hz)]
    /\ UNCHANGED <<cfg, area, env, obs, ack_tracker, pause_evt, stop_evt, rxq, rxBatch,
                   tx, linkUp, log, ctl, hist>>

\* _load_time(args.time, ..., kwargs=time_kwargs)
RateArm ==
    /\ sch.pc = "arm"
    /\ sch' = [sch EXCEPT !.pc = "armed", !.period = UniformPeriod(sch.time_kwargs)]
    /\ UNCHANGED <<cfg, area, env, obs, ack_tracker, pause_evt, stop_evt, rxq, rxBatch,
                   tx, linkUp, log, ctl, hist>>

RateNext == RateReconcile \/ RateArm

RateSpec == RateStart /\ [][RateNext]_vars

\* a console session from start-up on
CtlSpec == CtlStart /\ [][CtlNext]_vars

\* the threads run: main when it is not waiting for the user, the watcher's
\* poll, the scheduler
FairCtlSpec ==
    FairCtlStart /\ [][CtlNext]_vars
    /\ WF_vars(MainStep) /\ WF_vars(WatcherStep) /\ WF_vars(UniformStep)

\* ====================================================== properties
\* C1: the tracker resolves at most once per start(): of the "SC 00" lines fed
\* since the last start(), exactly the first makes on_rx return true; with no
\* start() at all, on_rx("SC 00") returns false and the tracker stays unresolved.
AckResolvesOncePerStart ==
    /\ obs.started => \A i \in DOMAIN obs.hist : obs.hist[i].ret = (i = 1)
    /\ ~obs.started =>
          /\ \A i \in DOMAIN obs.hist : ~obs.hist[i].ret
          /\ ~ack_tracker.event
          /\ ~ack_tracker.pending

\* two "SC 00" lines were fed after a start()
AckResolvesOncePerStartWitness == obs.started /\ Len(obs.hist) >= 2

\* C2: no lost wakeup: if on_rx resolved the tracker after start() and before
\* wait() returned -- also before wait() was entered -- wait() returns true.
NoLostWakeup ==
    obs.waitRet # Nil => (Val(obs.waitRet).resolved => Val(obs.waitRet).ret)

\* the tracker was resolved before wait() was entered, and wait() returned true
NoLostWakeupWitness ==
    obs.waitRet # Nil /\ obs.enterRes /\ Val(obs.waitRet).ret

\* C3: while an acknowledgement is pending, an "SC 00" line resolves the tracker
\* only if an "SC 10" line was fed before it since start().
AckNeedsSC10First ==
    \A i \in DOMAIN obs.hist : obs.hist[i].ret => obs.hist[i].sc10

\* C4: single-slot gating: a gated scheduler arms the tracker for the next
\* injection only after every earlier wait() has returned, and never has sent
\* more than one injection beyond the waits that returned.
SingleSlotGating ==
    Gated =>
        /\ obs.armed - obs.waits \in {0, 1}
        /\ sch.pc = "arm" => obs.armed = obs.waits
        /\ Len(tx) <= obs.waits + 1
        /\ Len(tx) <= obs.armed

\* a gated scheduler armed, sent and waited twice
SingleSlotGatingWitness == Gated /\ obs.armed >= 2 /\ obs.waits >= 2 /\ Len(tx) >= 2

\* C5: a wait() that timed out leaves the tracker pending until an "SC 00"
\* arrives, which still resolves it; start() clears the resolution, so the event
\* is set only by an "SC 00" fed after the last start(), and a wait() returns
\* true only for such a resolution.
LateAckAbsorbed ==
    /\ obs.started =>
          /\ ack_tracker.event <=> Resolved
          /\ ack_tracker.pending <=> ~Resolved
    /\ obs.waitRet # Nil => (Val(obs.waitRet).ret => Val(obs.waitRet).resolved)

\* a wait() timed out, an "SC 00" resolved the tracker late, and the wait() after
\* the next start() returned false
LateAckAbsorbedWitness ==
    /\ obs.late
    /\ obs.armed >= 2
    /\ obs.waitRet # Nil
    /\ ~Val(obs.waitRet).ret

\* the commands for the first n addresses of the list, in list order
Shots(n) == [i \in 1..n |-> <<"N", area.addrs[i]>>]

\* C6: shot cap: uniform, max_shots = M (M >= 1) over L >= M addresses, no stop,
\* pause, duration bound or write failure: exactly M commands in list order and
\* finished_reason = "max_reached".
ShotCapReported ==
    ( /\ sch.pc = "done"
      /\ cfg.profile = "uniform"
      /\ cfg.max_shots # Nil
      /\ Val(cfg.max_shots) >= 1
      /\ Val(cfg.max_shots) <= cfg.nAddr
      /\ ~cfg.duration
      /\ ~obs.everStop
      /\ ~obs.everPause
      /\ linkUp )
    => /\ tx = Shots(Val(cfg.max_shots))
       /\ sch.finished_reason = "max_reached"

SchedulerNeverReads ==
    [][SchedStep => (rxq' = rxq /\ rxBatch' = rxBatch)]_vars

\* the scheduler waits for an acknowledgement, having sent, while lines are queued
SchedulerNeverReadsWitness ==
    sch.pc = "waiting" /\ tx # <<>> /\ rxq # <<>>

\* C9: cooperative stop: once the stop flag is set at most one further
\* injection is sent, and the scheduler thread eventually terminates.
CooperativeStop ==
    /\ [](stop_evt => Len(tx) <= Val(obs.stopTx) + 1)
    /\ (stop_evt ~> sch.pc = "done")

\* the flag was set while the scheduler sat in its pause wait; it has terminated
CooperativeStopWitness ==
    /\ stop_evt
    /\ obs.stopHeld
    /\ sch.pc = "done"

\* the scheduler left its pause wait on a cleared flag with an address in hand or
\* to be had and its cap not met
ResumedWithWork == obs.resume # Nil /\ Val(obs.resume).work

\* an injection was sent since the scheduler left its pause wait
SentSinceResume == obs.resume # Nil /\ Len(tx) > Val(obs.resume).tx

SingleRxConsumer == ~(ctl.rxpc = "read_lines" /\ InExchange)

IsRxEntry(e) == e[1] = "RX"

\* the lines of the log's RX entries, in log order
RxLogged ==
    LET sel == SelectSeq(log, IsRxEntry) IN [i \in 1..Len(sel) |-> sel[i][2]]

IsPrefix(s, t) == Len(s) <= Len(t) /\ s = SubSeq(t, 1, Len(s))

\* C12: the RX consumer takes the lines one at a time in arrival order, passes
\* each to on_rx() before it logs it, and its RX log entries are in arrival order.
RxInArrivalOrder ==
    /\ IsPrefix(hist.fed, hist.arrived)
    /\ IsPrefix(RxLogged, hist.arrived)
    /\ Len(hist.fed) = Len(RxLogged) + (IF ctl.rxfed THEN 1 ELSE 0)

\* two different lines went through, and a third is fed and not yet logged
RxInArrivalOrderWitness ==
    /\ Len(RxLogged) >= 1
    /\ ctl.rxfed
    /\ Head(rxBatch) # RxLogged[1]
    /\ ack_tracker.event

\* C13: at start-up the controller queries until a snapshot is seen or the
\* attempt budget max(1, attempts) is used up: a failed start-up check has
\* used the whole budget.
StartupPreflightUsesBudget ==
    hist.startFailed => hist.startQueries = AttemptBudget(ctl.attempts)

NoInjectionSent == \A i \in DOMAIN tx : tx[i][1] # "N"

ErrorLogged == \E i \in DOMAIN log : log[i][1] = "ERROR"

\* C14: a failed start-up check is fatal: an error is logged, no Area or Time
\* Profile is constructed, no scheduler is started, no N command is ever sent.
FailedPreflightIsFatal ==
    hist.startFailed =>
        /\ ErrorLogged
        /\ ~ctl.area
        /\ ~ctl.time_profile
        /\ hist.armings = 0
        /\ hist.campaigns = 0
        /\ sch.pc = "created"
        /\ NoInjectionSent
        /\ ctl.pc = "returned"

\* the check failed after a query went unanswered, and main() has returned
FailedPreflightIsFatalWitness ==
    /\ hist.startFailed
    /\ hist.startQueries = 1
    /\ ctl.pc = "returned"
    /\ ctl.on_end = "manual"

ArmingFailureExitsNonZero ==
    (ctl.pc = "returned" /\ hist.armErr # "none" /\ ctl.on_end = "exit"
        /\ ~hist.userEnd)
    => Val(ctl.exit_code) # 0

\* the main thread is inside the _preflight_sem() of a 'resume'
InResumePreflight ==
    \/ ctl.pc \in {"pre_top", "pre_set"}
    \/ ctl.pc \in {"status_send", "status_read"} /\ ctl.ret = "pre_set"

\* C17: a 'resume' whose preflight fails leaves the console in manual mode,
\* constructs and starts no profile, and leaves the pause flag as it is: every
\* step of the preflight but its successful end changes none of these, never
\* goes on to arm, and ends at the manual prompt.
FailedResumeChangesNothing ==
    [][ (InResumePreflight /\ ctl'.pc # ctl.pc /\ ~(ctl.pc = "pre_set" /\ ctl.ok))
        => /\ pause_evt' = pause_evt
           /\ ctl'.driven = ctl.driven
           /\ ctl'.area = ctl.area
           /\ ctl'.time_profile = ctl.time_profile
           /\ sch' = sch
           /\ hist'.armings = hist.armings
           /\ ctl'.pc # "resume_arm"
           /\ ctl'.pc = "loop" => ~ctl'.driven ]_vars

\* a 'resume' gave up after more than one unanswered query, the pause flag set
FailedResumeChangesNothingWitness ==
    /\ ctl.pc = "loop"
    /\ hist.snap # Nil
    /\ hist.resumes = 0
    /\ ~ctl.ok
    /\ hist.queries = AttemptBudget(ctl.attempts)
    /\ hist.queries > 1
    /\ pause_evt
    /\ ~ctl.driven

\* C18: after a successful 'resume' the scheduler is not held in its pause wait.
ResumedSchedulerNotHeld ==
    (hist.resumes > 0 /\ ctl.driven) => ~InPauseWait

EndLogged == \E i \in DOMAIN log : log[i][1] \in {"PROF AREA", "PROF TIME"} /\ log[i][2] = "finished"

\* C19: once the scheduler has terminated by itself the watcher eventually logs
\* the end and applies exactly one policy: manual sets the pause flag and puts
\* the console in manual mode, exit raises the auto-exit signal and the main
\* loop then ends.
WatcherAppliesOnePolicy ==
    /\ [](hist.policy # "none" =>
            /\ hist.policy = ctl.on_end
            /\ EndLogged
            /\ ctl.on_end = "manual" => (pause_evt /\ ~ctl.auto_exit_evt)
            /\ ctl.on_end = "exit" => (ctl.auto_exit_evt /\ ~pause_evt))
    /\ [][ (hist.policy = "none" /\ hist'.policy = "manual")
           => (~ctl'.driven /\ pause_evt') ]_vars
    /\ [][ (hist.policy = "none" /\ hist'.policy = "exit")
           => (ctl'.driven = ctl.driven /\ ctl'.auto_exit_evt) ]_vars
    /\ ((ctl.time_profile /\ sch.pc = "done" /\ ~ctl.watcher_fired)
          ~> (hist.policy # "none" \/ stop_evt))
    /\ (hist.policy = "exit" ~> ctl.pc = "returned")

\* the campaign ended, the watcher raised auto-exit, and main() returned unasked
WatcherAppliesOnePolicyWitness ==
    /\ hist.policy = "exit"
    /\ ctl.pc = "returned"
    /\ ~hist.userEnd
    /\ Len(tx) > 2

\* C20: when the scheduler ended because the addresses ran out, the watcher
\* takes the Area Profile branch.
ExhaustionReportedByArea ==
    hist.exhausted => hist.endKind = "area"

\* ------------------------------------------------------ campaign endings
IsTxEntry(e) == e[1] = "TX"

\* an injection was logged and its write raised: the log holds more TX entries
\* than commands reached the transport
WriteRaised == Len(SelectSeq(log, IsTxEntry)) > Len(tx)

\* C21: when the injection write raises during a uniform campaign, the
\* scheduler ends and an ERROR event is logged.
WriteFailureIsLogged ==
    (cfg.profile = "uniform" /\ ctl.pc = "read_driven" /\ WriteRaised /\ sch.pc = "done")
    => ErrorLogged

\* C28: a scheduler whose run loop ended because it read the stop flag as set
\* records no finished_reason.
StoppedHasNoReason ==
    (sch.pc = "done" /\ obs.stopSeen) => sch.finished_reason = None

\* C26: every return of main() after the transport was opened has closed the
\* transport and the event logger.
ReturnClosesEverything ==
    ctl.pc = "returned" => (ctl.tr_closed /\ ctl.log_closed)

\* C29: the end of every scheduler the controller starts is detected: when a
\* started scheduler has terminated and the session goes on, the watcher has
\* seen that end or is still polling for it.
EveryEndDetectable ==
    (ctl.time_profile /\ sch.pc = "done" /\ ~stop_evt /\ ctl.pc # "returned")
    => (hist.endSeen = hist.campaigns \/ ctl.wpc # "ended")

\* C30: the tracker a scheduler waits on is the one the RX consumer feeds: when
\* an "SC 00" line was passed to on_rx() after the scheduler's start() and
\* before its wait() returned, that wait() returned true.
FedAckReachesScheduler ==
    hist.waited # Nil => (Val(hist.waited).sc00 => Val(hist.waited).ret)

\* a step of the main thread: it moves on, or takes a line or a watch round
MainActs ==
    \/ ctl'.pc # ctl.pc
    \/ env'.cmdLeft # env.cmdLeft
    \/ env'.watchLeft # env.watchLeft

\* C27: while the console is in driven mode the main thread, which handles the
\* user's input, writes nothing to the device but the status query S, in
\* fault_injection.py and in sem_console.py alike; a line the driven prompt does
\* not know is refused and writes nothing.
DrivenIsNonInvasive ==
    [][(ctl.driven /\ MainActs) => (tx' = tx \/ tx' = Append(tx, <<"S">>))]_vars

\* fault_injection.py refused a line typed at the driven prompt while the
\* campaign runs
DrivenIsNonInvasiveWitness ==
    /\ hist.refused > 0
    /\ ctl.driven
    /\ ctl.pc = "loop"
    /\ sch.pc # "done"

\* the lines of the file that are neither blank nor comments
KeptLines == {i \in 1..Len(cfg.file) : load_addresses_file(<<cfg.file[i]>>) # <<>>}

IsLfa(a) == Len(a) = 10 /\ \A i \in 1..10 : a[i] \in HexUpper

ServesOnlyLfas ==
    /\ \A i \in 1..Len(area.addrs) : IsLfa(area.addrs[i])
    /\ \A i \in 1..Len(obs.yielded) : IsLfa(obs.yielded[i])
    /\ obs.built # "ok" => (area = NoArea /\ obs.yielded = <<>>)

\* C22 as stated: the construction succeeds only if every line of the file that
\* is neither blank nor a comment is exactly 10 hexadecimal digits, a failed
\* construction serves nothing, and every address served is 10 uppercase
\* hexadecimal digits.
AddressLinesAreHex10 ==
    /\ obs.built = "ok" => \A i \in KeptLines : Hex10Match(cfg.file[i])
    /\ ServesOnlyLfas

\* C22: the construction succeeds only if every line of the file that is
\* neither blank nor a comment is, once the white space around it is removed,
\* exactly 10 hexadecimal digits; a failed construction serves nothing; every
\* address stored or served is 10 uppercase hexadecimal digits.
StrippedLinesAreHex10 ==
    /\ obs.built = "ok" => \A i \in KeptLines : Hex10Match(Strip(cfg.file[i]))
    /\ ServesOnlyLfas

\* a file with a padded line and a lower-case line was accepted and served
StrippedLinesAreHex10Witness ==
    /\ obs.built = "ok"
    /\ cfg.file = <<LfaPadded, LfaLower>>
    /\ Len(obs.yielded) = 2

\* the address lines of the file, normalised, in file order
FileOrder ==
    LET raw == load_addresses_file(cfg.file)
    IN  [i \in 1..Len(raw) |-> UpperStr(raw[i])]

Count(a, x) == Cardinality({i \in 1..Len(a) : a[i] = x})

IsPermutation(a, b) ==
    /\ Len(a) = Len(b)
    /\ \A i \in 1..Len(a) : Count(a, a[i]) = Count(b, a[i])

\* C23: two profiles built from the same file, mode and seed store the same
\* sequence; in sequential mode it is the file's address lines in file order,
\* in random mode a permutation of them.
OrderingDeterministic ==
    (obs.built = "ok" /\ obs.twin # Nil)
    => /\ Val(obs.twin) = area.addrs
       /\ CanonicalMode(cfg.mode) = Some("sequential") => area.addrs = FileOrder
       /\ CanonicalMode(cfg.mode) = Some("random")
              => IsPermutation(area.addrs, FileOrder)

\* C24: the cursor stays within 0..N; the addresses returned since the
\* construction or the last reset() are the stored ones up to the cursor, in
\* stored order; a call at the end returns None and leaves the cursor; reset()
\* puts the cursor back on the first address.
CursorDiscipline ==
    obs.built = "ok"
    => /\ area.idx \in 0..Len(area.addrs)
       /\ obs.returned = SubSeq(area.addrs, 1, area.idx)
       /\ obs.last # Nil
              => LET l == Val(obs.last)
                 IN  IF l.at < Len(area.addrs)
                     THEN l.ret = area.addrs[l.at + 1] /\ area.idx = l.at + 1
                     ELSE l.ret = Nil /\ area.idx = l.at

\* two addresses were served, reset() was called, both were served again in
\* the same order, and the next call returned None
CursorDisciplineWitness ==
    /\ obs.built = "ok"
    /\ Len(area.addrs) = 2
    /\ obs.resets = 1
    /\ obs.yielded = area.addrs \o area.addrs
    /\ obs.returned = area.addrs
    /\ obs.last # Nil
    /\ Val(obs.last).ret = Nil

\* C25 as stated, the shots counted 1, 2, ...: the deadline computed after shot
\* k is t0 + k*P, and shot k is not sent before t0 + k*P.
CadenceByShotNumber ==
    \A k \in 1..Len(obs.sent) :
        /\ obs.sent[k].deadline = sch.t0 + k * cfg.period
        /\ obs.sent[k].at >= sch.t0 + k * cfg.period

\* C25: with the shots counted 1, 2, ... the deadline computed after shot k is
\* t0 + k*P whenever the shots were sent, and the shot that follows it, shot
\* k + 1, is not sent before t0 + k*P; the first shot is not sent before t0.
DriftFreeCadence ==
    \A k \in 1..Len(obs.sent) :
        /\ obs.sent[k].deadline = sch.t0 + k * cfg.period
        /\ obs.sent[k].at >= sch.t0 + (k - 1) * cfg.period

\* the second shot went out late, the third on its deadline t0 + 2P all the same
DriftFreeCadenceWitness ==
    /\ Len(obs.sent) = 3
    /\ obs.sent[2].at > sch.t0 + cfg.period
    /\ obs.sent[3].at = sch.t0 + 2 * cfg.period


\* C31: the 'manual' command pauses the campaign: from the moment the user
\* switches a running campaign to manual until a successful 'resume', the
\* scheduler writes at most the one injection that was already in progress.
ManualPausesCampaign ==
    (~ctl.driven /\ hist.manualAt # Nil)
        => Injections(tx) <= Val(hist.manualAt) + 1

\* the scheduler thread has been started and its run() has not returned
SchedulerAlive == ctl.time_profile /\ sch.pc \notin {"created", "done"}

\* C32: at most one scheduler thread is alive at any time: a scheduler is
\* started (at start-up or by 'resume') only in a state where no scheduler is
\* alive, so a 'resume' typed while the campaign runs starts nothing.
OneSchedulerAlive ==
    [][hist'.campaigns > hist.campaigns => ~SchedulerAlive]_vars

\* a 'resume' passed its preflight while the scheduler was alive and left that
\* scheduler as the only one
OneSchedulerAliveWitness ==
    /\ hist.resumes > 0
    /\ hist.campaigns = 1
    /\ ctl.driven
    /\ ctl.pc = "loop"
    /\ SchedulerAlive

\* C33: injection echo gate: after any interleaving of send_echo() and
\* on_sc00(), the echoes printed number at most the completions counted plus
\* one, they are the first echoes submitted, in submission order and each once,
\* and the rest wait in the queue in that order.
EchoGateSequenced ==
    LET g == obs.gate
    IN  /\ Len(g.out) = g.printed
        /\ g.printed <= g.completed + 1
        /\ g.out \o g.queue = [i \in 1..obs.submitted |-> i]

\* an echo was held back behind an earlier one and released by a completion,
\* while another still waits
EchoGateSequencedWitness ==
    /\ obs.gate.printed = 2
    /\ obs.gate.completed = 1
    /\ obs.gate.queue = <<3>>

\* C34: platform rate cap: whenever the cap is positive, the uniform profile is
\* armed with a period of at least 1 / cap, whichever accepted cadence key the
\* user supplied with a positive value (periods are in twelfths of a second).
RateNeverExceedsCap ==
    ( /\ sch.pc = "armed"
      /\ cfg.cap_rate_hz > 0
      /\ \A k \in DOMAIN cfg.time_kwargs : cfg.time_kwargs[k] > 0 )
        => sch.period * cfg.cap_rate_hz >= 12

\* C35: trace profile, mode 'relative', repeat > 1: entry i of repetition r is
\* not sent before (the time repetition r began) + value_i, in every repetition.
RelativeReplayKeepsTiming ==
    \A j \in DOMAIN obs.sent :
        obs.sent[j].at >= obs.sent[j].rep_start + cfg.schedule[obs.sent[j].i]

\* C36: validation at the load boundary for every shipped area profile: every
\* address that address_list, modules or device hands to a scheduler, and so the
\* argument of every "N" command sent, is exactly 10 hexadecimal digits.
EveryProfileServesHex10 ==
    /\ obs.built = "ok" => \A i \in 1..Len(area.addrs) : Hex10Match(area.addrs[i])
    /\ \A i \in 1..Len(tx) : Hex10Match(tx[i][2])

\* C37: in ack-gated mode wait() for injection k returns true only because of
\* the "SC 00" the device emitted in answer to injection k: the line that
\* resolved the tracker, the first fed after start(), is the k-th answer.
AckBelongsToInjection ==
    (hist.waited # Nil /\ Val(hist.waited).ret) => hist.armedAt + 1 = obs.armed

\* the lines of the batch the RX consumer holds that it has not fed yet
Unfed == IF ctl.rxfed THEN Tail(rxBatch) ELSE rxBatch

\* C38: an acknowledgement is never lost to a synchronized exchange: every
\* "SC 00" the device emitted in answer to a gated injection has been fed to
\* on_rx() or is still on its way there (held by the RX consumer, or queued),
\* also while the user runs 'status' or 'watch' during the campaign.
NoAckLostToExchange ==
    hist.arrived = hist.fed \o Unfed \o rxq

\* C39: every address a uniform scheduler pulls from the area profile is
\* injected: when it ends by "max_reached", by "duration_elapsed" or by
\* exhaustion (no stop, no write failure, a shot cap of at least 1 if any), the
\* addresses consumed from the area cursor are as many as the "N" commands sent.
EveryPulledAddressInjected ==
    ( /\ sch.pc = "done"
      /\ cfg.profile = "uniform"
      /\ cfg.max_shots # Nil => Val(cfg.max_shots) >= 1
      /\ ~obs.everStop
      /\ linkUp )
    => area.idx = Injections(tx)

\* the main thread is between the rx_enabled.clear() and the rx_enabled.set() of
\* a synchronized exchange
ExchangeInProgress ==
    ctl.pc \in {"init_mode", "init_mode_read", "init_verify", "status_send",
                "status_read", "status_set", "watch_set", "pre_set"}

\* C40: the RX consumer is re-enabled after every synchronized exchange: the
\* shared flag is clear only while the initial exchange, a preflight attempt or
\* a 'status'/'watch' query is in progress, however that exchange ends.
RxReEnabledAfterExchange == ~ctl.rx_enabled => ExchangeInProgress

====
